---- MODULE Spec2Model ----
(***************************************************************************)
(* MultiADSweep: the sweep normaliser (SimulationManager.__init__), the    *)
(* worker function (_sim_worker_fcn), the coordinator and reconciliation   *)
(* loop (SimulationManager.run), the log aggregator (LogFileHandler), the  *)
(* run directories (SimulationHandler) and write_output_files.             *)
(*                                                                         *)
(* Python values are modelled as follows.                                  *)
(*   None / optional      the empty sequence <<>>; a present value x is <<x>> *)
(*   pd.MultiIndex        [names : Seq(STRING), tuples : Seq(Seq(Int))]    *)
(*   pd.DataFrame block   a record of type "DataFrame": index names and an *)
(*                        ordered sequence of rows [key, val]              *)
(*   pwdt.Block           a record of type "Block"                         *)
(*   dependent values     symbolic: the value run i writes in block b at   *)
(*                        native key k is <<i, b, k>>; NaN is <<>>         *)
(***************************************************************************)
EXTENDS Integers, Sequences, FiniteSets, TLC

VARIABLES
    pc,                   \* where the program is: "new", "constructed", "pool", ..., "done", "raised"
    exc,                  \* the exception that ended __init__ or run(), "" when none
    excSite,              \* the statement that raised it
    vars,                 \* __init__ argument vars
    var_names,            \* __init__ argument var_names
    workspace_dir,        \* __init__ argument workspace_dir: the name of the directory and its netlist file (Opt)
    ads_startup_cmd,      \* __init__ argument ads_startup_cmd
    newSweepingVars,      \* self.newSweepingVars (Opt)
    dirsCreated,          \* the MAS_* directories exist
    writeLogs,            \* self.writeLogs
    maxPoolSize,          \* self.maxPoolSize
    task,                 \* per sweep position: "queued", a step of InProcess, "finished", "consumed"
    result,               \* per sweep position: what the worker process returned or raised
    finishedWorkers,      \* run(): finishedWorkers
    isFirstValidWorker,   \* run(): isFirstValidWorker
    concatBlocks,         \* run(): concatBlocks
    concatBlocksMetadata, \* run(): concatBlocksMetadata
    simOutput,            \* history: per sweep position, what the environment did with the run (Opt)
    logData,              \* self.logFileHandler.data, as a sequence of <<workerName, entry>> in insertion order
    summary,              \* what print_summary printed (Opt)
    logFile,              \* the log bundle on disk: "absent", "partial", "written"
    simResults,           \* self.simResults (Opt)
    firstData,            \* history: the first run to finish with result blocks (Opt)
    staticVars,           \* self.staticVars, a dict as a sequence of <<name, value>>
    keepTempFiles,        \* self.keepTempFiles
    tempDirs,             \* the directories under MAS_workspaceDir/temp: a set of <<path, content>>
    slot,                 \* per sweep position: the pool process that took the task, 0 when none
    cwd,                  \* per pool process: the directory os.chdir took it to (Opt), None before the first
    faults,               \* the number of rm child processes that have failed
    handlerLog,           \* history: per sweep position, what SimulationHandler.__init__ did (Opt)
    outFiles,             \* the output files write_output_files has written
    writeCall,            \* history: the last call of write_output_files (Opt)
    envWrites,            \* history: the assignments to os.environ, [process, keys], 0 the coordinator
    prevRun,              \* history: what the previous call of run() left (Opt)
    fnArgs,               \* the arguments of a call of a function of utilities.py or logging.py (Opt)
    fnOut                 \* what that call returned (Opt)

vars_all == <<pc, exc, excSite, vars, var_names, workspace_dir, ads_startup_cmd, newSweepingVars,
              dirsCreated, writeLogs, maxPoolSize, task, result, finishedWorkers,
              isFirstValidWorker, concatBlocks, concatBlocksMetadata, simOutput,
              logData, summary, logFile, simResults, firstData, staticVars,
              keepTempFiles, tempDirs, slot, cwd, faults, handlerLog, outFiles,
              writeCall,
              envWrites, prevRun, fnArgs, fnOut>>

handler_vars == <<staticVars, keepTempFiles, tempDirs, slot, cwd, faults, handlerLog,
                  envWrites>>
write_vars == <<outFiles, writeCall>>
call_vars == <<prevRun, fnArgs, fnOut>>
manager_vars == <<pc, exc, excSite, vars, var_names, workspace_dir, ads_startup_cmd,
                  newSweepingVars, dirsCreated, writeLogs, maxPoolSize, task, result,
                  finishedWorkers, isFirstValidWorker, concatBlocks, concatBlocksMetadata,
                  simOutput, logData, summary, logFile, simResults, firstData>>

(***************************************************************************)
(* Bounds of the model.                                                    *)
(***************************************************************************)
MaxRuns == 2        \* sweep tuples per sweep
MaxAxes == 2        \* sweep axes
MaxNative == 2      \* values of a block's native independent variable
MaxBlocks == 2      \* blocks per output dataset
MaxWorkers == 2     \* max_workers
MaxLines == 2       \* lines of a netlist
MaxBytes == 3       \* bytes of a simulator output handed to robust_byte_decode
MaxMessages == 2    \* warnings and errors in the log of a run
MaxFaults == 1      \* rm child processes that fail
RecursionLimit == 1000   \* sys.getrecursionlimit() of CPython

None == <<>>
Some(x) == <<x>>
NaN == <<>>
NoneName == "<None>"   \* the name None of an unnamed MultiIndex level

AxisNames == <<"bias", "vdd", "temp", "pin">>   \* axis j of a generated sweep is named AxisNames[j]
NativeNames == {"freq", "time"}

\* str(n) of a non-negative int, one character per element
RECURSIVE IntStr(_)
IntStr(n) ==
    LET digit == <<"0", "1", "2", "3", "4", "5", "6", "7", "8", "9">>[(n % 10) + 1]
    IN  IF n < 10 THEN <<digit>> ELSE Append(IntStr(n \div 10), digit)

\* A Python value of a sweep is modelled by its type and its str(): the int 1 is
\* [t |-> "int", s |-> <<"1">>], the float 1.5 and the str '1.5' differ in t only.
IntV(n) == [t |-> "int", s |-> IntStr(n)]
FloatV(whole, frac) == [t |-> "float", s |-> IntStr(whole) \o <<".">> \o IntStr(frac)]
StrV(chars) == [t |-> "str", s |-> chars]
NanV == [t |-> "float", s |-> <<"n", "a", "n">>]

RECURSIVE JoinStr(_)
JoinStr(vs) ==
    IF vs = <<>> THEN <<>>
    ELSE Head(vs).s \o (IF Len(vs) > 1 THEN <<",", " ">> ELSE <<>>) \o JoinStr(Tail(vs))

\* a tuple used as one value: str((1, 2)) is "(1, 2)", str((1,)) is "(1,)"
TupleV(tp) == [t |-> "tuple",
               s |-> <<"(">> \o JoinStr(tp) \o (IF Len(tp) = 1 THEN <<",">> ELSE <<>>) \o <<")">>]

AxisValues == {IntV(1), IntV(2)}     \* the values an axis takes in the arguments of __init__

Range(s) == {s[i] : i \in DOMAIN s}

SeqsUpTo(S, n) == UNION {[1..k -> S] : k \in 1..n}

\* Index.unique(), and the keys of a dict built item by item: the values in order of first appearance
RECURSIVE unique(_)
unique(values) ==
    IF values = <<>> THEN <<>>
    ELSE LET front == unique(SubSeq(values, 1, Len(values) - 1))
             last == values[Len(values)]
         IN  IF last \in Range(front) THEN front ELSE Append(front, last)

RECURSIVE Flatten(_)
Flatten(ss) == IF ss = <<>> THEN <<>> ELSE Head(ss) \o Flatten(Tail(ss))

(***************************************************************************)
(* Sweep Specification Normalizer: SimulationManager.__init__, lines 72-94 *)
(***************************************************************************)
Fail(e) == [ok |-> FALSE, exc |-> e, names |-> <<>>, tuples |-> <<>>]

MaxOf(S) == CHOOSE x \in S : \A y \in S : y <= x

\* float(x) of an int x: str(float(1)) is "1.0"
AsFloat(x) == IF x.t = "int" THEN [t |-> "float", s |-> x.s \o <<".", "0">>] ELSE x

\* the values of one level of a MultiIndex as iteration over the index hands
\* them out (MultiIndex._values, _get_level_values): a level of numbers that
\* holds a float or a missing cell is a float64 level, and its ints come out
\* as floats; a level that holds anything else is an object level, and its
\* cells come out as they went in
level_values(cells) ==
    IF /\ \A i \in DOMAIN cells : cells[i].t \in {"int", "float"}
       /\ \E i \in DOMAIN cells : cells[i].t = "float"
    THEN [i \in DOMAIN cells |-> AsFloat(cells[i])]
    ELSE cells

\* pd.MultiIndex.from_tuples(items, names=names) of pandas 1.4.4 on a non-empty
\* list.  lib.to_object_array_tuples takes len() of every item (TypeError on a
\* number) and fills an n x k object array, k the longest tuple, a shorter tuple
\* leaving None (NaN in the index) in its last columns; the k columns are the
\* levels.  names must be list-like and k long (ValueError otherwise).  The
\* tuples are those the iteration of lines 157 and 197 gives.
from_tuples(items, names) ==
    IF \E i \in DOMAIN items : items[i].t # "tuple" THEN Fail("TypeError")
    ELSE LET k == MaxOf({Len(items[i].v) : i \in DOMAIN items})
             level(j) == level_values([i \in DOMAIN items |->
                                          IF j <= Len(items[i].v)
                                          THEN items[i].v[j] ELSE NanV])
         IN  IF names.kind # "list" \/ Len(names.v) # k THEN Fail("ValueError")
             ELSE [ok |-> TRUE, exc |-> "", names |-> names.v,
                   tuples |-> [i \in DOMAIN items |-> [j \in 1..k |-> level(j)[i]]]]

\* reversed(range(n)): the level numbers n-1, ..., 0
reversed_range(n) == [j \in 1..n |-> n - j]

\* MultiIndex.reorder_levels(order): level j of the result is level order[j] of idx
reorder_levels(idx, order) ==
    [names  |-> [j \in DOMAIN order |-> idx.names[order[j] + 1]],
     tuples |-> [i \in DOMAIN idx.tuples |->
                    [j \in DOMAIN order |-> idx.tuples[i][order[j] + 1]]]]

\* faulty variant of SweepLevelOrder: the levels stay in declaration order
SweepLevelOrder_declared(idx) == [j \in 1..Len(idx.names) |-> j - 1]

\* line 94: the level order the normaliser asks for
SweepLevelOrder(idx) == reversed_range(Len(idx.names))

\* faulty variant of CheckVars: the names are not looked at
CheckVars_namesUnchecked(v, names) ==
    IF v.kind = "MultiIndex"
    THEN [ok |-> TRUE, exc |-> "", names |-> v.names,
          tuples |-> [i \in DOMAIN v.items |-> v.items[i].v]]
    ELSE from_tuples([i \in DOMAIN v.items |-> [t |-> "tuple", v |-> v.items[i].v]],
                     [kind |-> "list",
                      v |-> SubSeq(AxisNames, 1, MaxOf({Len(v.items[i].v) : i \in DOMAIN v.items}))])

\* line 85: (item,) for an item of the list
Wrapped(item) ==
    [t |-> "tuple", v |-> IF item.t = "num" THEN item.v ELSE <<TupleV(item.v)>>]

\* lines 72-91: the index built from the arguments, or the exception raised
CheckVars(v, names) ==
    IF v.kind = "MultiIndex" THEN
        IF NoneName \in Range(v.names)
        THEN Fail("ValueError")
        ELSE [ok |-> TRUE, exc |-> "", names |-> v.names,
              tuples |-> [i \in DOMAIN v.items |-> v.items[i].v]]
    ELSE IF v.kind = "list" THEN
        IF \A i \in DOMAIN v.items : v.items[i].t \in {"tuple", "num"} THEN
            IF v.items[1].t = "tuple" THEN
                IF names.kind = "None"
                THEN Fail("ValueError")
                ELSE from_tuples(v.items, names)
            ELSE
                IF names.kind # "str"
                THEN Fail("ValueError")
                ELSE from_tuples([i \in DOMAIN v.items |-> Wrapped(v.items[i])],
                                 [kind |-> "list", v |-> names.v])
        ELSE Fail("ValueError")
    ELSE Fail("ValueError")

\* lines 72-94: the normalised index
Normalize(v, names) ==
    LET idx == CheckVars(v, names)
    IN  IF idx.ok
        THEN Some(reorder_levels([names |-> idx.names, tuples |-> idx.tuples],
                                 SweepLevelOrder(idx)))
        ELSE None

(***************************************************************************)
(* Arguments of __init__ the model draws from.  A scalar item x of a list  *)
(* is [t |-> "num", v |-> <<x>>]: v is the tuple (x,) line 85 builds.      *)
(***************************************************************************)
NumItem(x) == [t |-> "num", v |-> <<x>>]
TupleItem(tp) == [t |-> "tuple", v |-> tp]

NamesOf(a) == SubSeq(AxisNames, 1, a)

ScalarLists == {[kind |-> "list", names |-> <<>>, items |-> [i \in DOMAIN s |-> NumItem(s[i])]] :
                    s \in SeqsUpTo(AxisValues, MaxRuns)}

TupleLists == UNION {
    {[kind |-> "list", names |-> <<>>, items |-> [i \in DOMAIN s |-> TupleItem(s[i])]] :
        s \in SeqsUpTo([1..a -> AxisValues], MaxRuns)} : a \in 1..MaxAxes}

\* a pre-built MultiIndex, possibly with one level left unnamed
MultiIndexes == UNION {
    {[kind |-> "MultiIndex", names |-> nm, items |-> [i \in DOMAIN s |-> TupleItem(s[i])]] :
        s \in SeqsUpTo([1..a -> AxisValues], MaxRuns),
        nm \in {NamesOf(a)} \cup {[NamesOf(a) EXCEPT ![j] = NoneName] : j \in 1..a}}
    : a \in 1..MaxAxes}

\* lists that mix tuples and numbers, in either order of the first item
MixedLists ==
    {[kind |-> "list", names |-> <<>>, items |-> its] :
        its \in {<<TupleItem(<<IntV(1), IntV(2)>>), NumItem(IntV(1))>>,
                 <<NumItem(IntV(1)), TupleItem(<<IntV(1), IntV(2)>>)>>,
                 <<TupleItem(<<IntV(1)>>), NumItem(IntV(2))>>,
                 <<NumItem(IntV(2)), TupleItem(<<IntV(1)>>)>>}}

IsRagged(items) == \E i, j \in DOMAIN items : Len(items[i].v) # Len(items[j].v)

\* lists of tuples of different lengths
RaggedLists ==
    {[kind |-> "list", names |-> <<>>, items |-> [i \in DOMAIN s |-> TupleItem(s[i])]] :
        s \in {q \in SeqsUpTo(UNION {[1..a -> {IntV(1)}] : a \in 1..MaxAxes}, MaxRuns) :
                  \E i, j \in DOMAIN q : Len(q[i]) # Len(q[j])}}

VarNamesArgs == {[kind |-> "None", v |-> <<>>], [kind |-> "str", v |-> <<AxisNames[1]>>]}
                    \cup {[kind |-> "list", v |-> NamesOf(a)] : a \in 1..MaxAxes}

StartupCmdArgs == {"None", "str", "list", "other"}

\* the command a string argument holds, and the list a list argument holds
StartupCmdStr == "module load ads"
StartupCmdList == <<"module load ads", "export HPEESOF_DIR=/opt/ads">>

\* the constructor's branches on ads_startup_cmd: None and a string assign
\* the attribute; the last branch reads self.ads_startup_cmd, which no
\* earlier statement has assigned, so that a list and any other value end
\* in AttributeError and nothing is stored
StartupCmd(arg) ==
    IF arg = "None" THEN [exc |-> "", stored |-> Some(<<>>)]
    ELSE IF arg = "str" THEN [exc |-> "", stored |-> Some(<<StartupCmdStr>>)]
    ELSE [exc |-> "AttributeError", stored |-> None]

(***************************************************************************)
(* The simulator's side of one run: what the environment does with the     *)
(* isolated workspace.  Block names, metadata and dependent values are     *)
(* symbolic and differ from run to run and from block to block, so that    *)
(* the origin of everything in the unified dataset can be told.            *)
(***************************************************************************)
\* the kinds of block: "scalar" has no independent variable, "grid" has both
\* native independent variables, any other kind is the name of the one it has
BlockKinds == {"scalar", "grid"} \cup NativeNames

\* block.ivarnames of a block of a kind
IvarNames(kind) ==
    IF kind = "scalar" THEN <<>>
    ELSE IF kind = "grid" THEN <<"freq", "time">>
    ELSE <<kind>>

\* a run's native sweep stops after n points (the simulator stops converging)
KeySets == {1..n : n \in 1..MaxNative}

\* the elements of a set of integers in increasing order
RECURSIVE SortedSeq(_)
SortedSeq(S) ==
    IF S = {} THEN <<>>
    ELSE LET m == CHOOSE x \in S : \A y \in S : x <= y
         IN  <<m>> \o SortedSeq(S \ {m})

\* block b of the dataset run i writes: one row without a key for a block
\* without independent variables, and otherwise one row for every point of the
\* native sweep, at which every native independent variable has the value of
\* the point
RawBlock(i, b, kind, keys) ==
    [name      |-> <<i, b>>,
     metadata  |-> [origin |-> <<i, b>>, ivarnames |-> None],
     ivarnames |-> IvarNames(kind),
     data      |-> IF kind = "scalar"
                   THEN <<[key |-> <<>>, val |-> <<i, b, 0>>]>>
                   ELSE LET ks == SortedSeq(keys)
                        IN  [r \in DOMAIN ks |->
                                [key |-> [j \in DOMAIN IvarNames(kind) |-> ks[r]],
                                 val |-> <<i, b, ks[r]>>]]]

\* the block kinds of a dataset: position by position the merge is the same, so
\* only the last block of a dataset is varied
Layouts == {ly \in SeqsUpTo(BlockKinds \ {"grid"}, MaxBlocks) :
                \A b \in 1..(Len(ly) - 1) : ly[b] = "freq"}

\* a run whose blocks are all regular may stop early; any other run writes all rows
KeySetsFor(ly) ==
    IF \A b \in DOMAIN ly : ly[b] = "freq" THEN KeySets ELSE {1..MaxNative}

\* simData.members of run i
Dataset(i, layout, keys) == [b \in DOMAIN layout |-> RawBlock(i, b, layout[b], keys)]

\* the captured simulator log, as the fields the aggregator's patterns find in it
CpuLine == [field |-> "Total CPU time", value |-> 1]
Logs == {<<>>, <<CpuLine>>}

ReadFailures == {"ChildProcessError", "StopIteration", "OtherError"}

\* everything the environment can do with run i: the simulator cannot be
\* started (subprocess.Popen raises, line 391), it writes no dataset, it writes
\* a dataset that cannot be read, or it writes one that can.  A run that
\* leaves a readable dataset has run to its end and printed its statistics.
Envs(i) ==
    {[kind |-> "handlerError", error |-> "OSError", logStr |-> <<>>, members |-> <<>>]}
    \cup {[kind |-> "missing", error |-> "", logStr |-> l, members |-> <<>>] : l \in Logs}
    \cup {[kind |-> "unreadable", error |-> e, logStr |-> <<CpuLine>>, members |-> <<>>] :
              e \in ReadFailures}
    \cup UNION {{[kind |-> "ok", error |-> "", logStr |-> <<CpuLine>>,
                   members |-> Dataset(i, ly, ks)] : ks \in KeySetsFor(ly)} : ly \in Layouts}

(***************************************************************************)
(* SimulationManager._sim_worker_fcn, lines 275-323                        *)
(***************************************************************************)
\* line 276: the dict of the run, as its items in order
VarsDict(names, tuple) == [j \in DOMAIN names |-> <<names[j], tuple[j]>>]

DictKeys(d) == [j \in DOMAIN d |-> d[j][1]]
DictValues(d) == [j \in DOMAIN d |-> d[j][2]]

\* the characters of a variable name
Chars(name) ==
    CASE name = "bias" -> <<"b", "i", "a", "s">>
      [] name = "vdd"  -> <<"v", "d", "d">>
      [] name = "temp" -> <<"t", "e", "m", "p">>
      [] name = "pin"  -> <<"p", "i", "n">>
      [] name = "gain" -> <<"g", "a", "i", "n">>
      [] name = "load" -> <<"l", "o", "a", "d">>
      [] OTHER         -> <<name>>

\* str.replace('.', 'p')
replace_dot(chars) == [j \in DOMAIN chars |-> IF chars[j] = "." THEN "p" ELSE chars[j]]

\* str.endswith
endswith(chars, suffix) ==
    Len(chars) >= Len(suffix)
    /\ SubSeq(chars, Len(chars) - Len(suffix) + 1, Len(chars)) = suffix

\* the name of the template workspace of a sweep that is run
WrkName == <<"w", "s", "_", "w", "r", "k">>

\* SimulationManager.__init__, lines 105-108: the name of the workspace
\* directory without its "_wrk"; a name that does not end so leaves the Path
\* in workspaceName, None here, and workspaceName + "_mas" is a TypeError
ADS_workspaceName(name) ==
    IF endswith(name, <<"_", "w", "r", "k">>)
    THEN Some(SubSeq(name, 1, Len(name) - 4))
    ELSE None

\* self.dirs["ADS_workspaceName"] of a manager that has been constructed
WorkspaceName == ADS_workspaceName(WrkName)[1]

\* line 355: f"_{var_name}_{var_value}".replace('.', 'p')
NameSuffix(name, value) == replace_dot(<<"_">> \o Chars(name) \o <<"_">> \o value.s)

\* SimulationHandler.__init__, lines 353-355: one "_name_value" per variable
RECURSIVE WorkerNameFrom(_, _)
WorkerNameFrom(acc, d) ==
    IF d = <<>> THEN acc
    ELSE WorkerNameFrom(acc \o NameSuffix(Head(d)[1], Head(d)[2]), Tail(d))

WorkerName(d) == WorkerNameFrom(WorkspaceName, d)

\* lines 358-361: the isolated directory of the run
TempWorkspaceDir(d) == WorkerName(d) \o <<"_", "w", "r", "k">>

\* an element of a read-error record: a string, or an exception object
Str(s) == [kind |-> "str", text |-> <<s, <<>>>>]
Exc(cls, msg) == [kind |-> "exception", text |-> <<cls, msg>>]

\* line 284: the exception object itself comes first; its text names the path
\* of the run's isolated workspace
MissingReadError(d) == <<Exc("FileNotFoundError", d), Str("No output file generated"),
                         Str("FileNotFoundError"), Str("Output File not found")>>

\* lines 294 and 300
UnreadableReadError(cls) == <<Str("Output File unreadable"), Str(cls), Str(cls)>>

\* SimulationHandler.run, line 412: the finished-worker record, logStr the
\* captured output of the simulator
Fw(d, logStr) == [workerName |-> WorkerName(d), vars |-> d, logStr |-> logStr,
                 readError |-> None]

\* lines 314-315: block.data[newIndep] = vars[newIndep] for every sweep
\* variable: a native column that has the name of a sweep variable is
\* overwritten with the value of the run (a number of the sweep as the number
\* it is among the numbers of the column)
CellValue(v) ==
    IF v.t = "int" /\ \E n \in 0..9 : IntStr(n) = v.s
    THEN CHOOSE n \in 0..9 : IntStr(n) = v.s
    ELSE v

AssignColumns(d, block, key) ==
    [j \in DOMAIN key |->
        IF \E h \in DOMAIN d : d[h][1] = block.ivarnames[j]
        THEN CellValue(d[CHOOSE h \in DOMAIN d : d[h][1] = block.ivarnames[j]][2])
        ELSE key[j]]

\* lines 309-321: one block of the run, given the sweep index levels
ProcessBlock(d, block) ==
    IF Len(block.ivarnames) > 0
    THEN [type     |-> "DataFrame",
          names    |-> DictKeys(d) \o block.ivarnames,
          rows     |-> [r \in DOMAIN block.data |->
                           [key |-> DictValues(d) \o AssignColumns(d, block, block.data[r].key),
                            val |-> block.data[r].val]],
          name     |-> <<>>,
          metadata |-> [origin |-> <<>>, ivarnames |-> None]]
    ELSE [type     |-> "Block",
          names    |-> block.ivarnames,
          rows     |-> block.data,
          name     |-> block.name,
          metadata |-> block.metadata]

\* faulty variant of MissingOutcome: the missing file goes unrecorded
MissingOutcome_unrecorded(fw, d) ==
    [raised |-> "", fw |-> fw, data |-> None, metadata |-> None]

\* lines 281-285: no dataset at the expected path
MissingOutcome(fw, d) ==
    [raised |-> "", fw |-> [fw EXCEPT !.readError = Some(MissingReadError(d))],
     data |-> None, metadata |-> None]

\* the exception classes the worker catches around pwdt.read_file, lines 292-301
CaughtReadErrors == {"ChildProcessError", "StopIteration"}

\* the worker function left by the exception e: what the pool process hands
\* back in place of a return value
RaisedOutcome(d, e) == [raised |-> e, fw |-> Fw(d, <<>>), data |-> None, metadata |-> None]

\* lines 280-323: what the worker function hands back once handler.run() has
\* returned the record fw, a return value or the exception that left it; file
\* is the dataset file at origDataFilePath, None when there is none
sim_worker_fcn(d, fw, file) ==
    IF file = None
    THEN MissingOutcome(fw, d)
    ELSE IF file[1].fault # ""
    THEN IF file[1].fault \in CaughtReadErrors
         THEN [raised |-> "",
               fw |-> [fw EXCEPT !.readError = Some(UnreadableReadError(file[1].fault))],
               data |-> None, metadata |-> None]
         ELSE RaisedOutcome(d, file[1].fault)
    ELSE [raised   |-> "",
          fw       |-> fw,
          data     |-> Some([b \in DOMAIN file[1].members |->
                               ProcessBlock(d, file[1].members[b])]),
          metadata |-> Some([b \in DOMAIN file[1].members |->
                               [name |-> file[1].members[b].name,
                                metadata |-> file[1].members[b].metadata]])]

(***************************************************************************)
(* SimulationManager.run, lines 161-177: merging one consumed outcome      *)
(***************************************************************************)
\* pd.concat([a, b]) of pandas 1.4.4 on two frames whose indexes have the same
\* number of levels: b's rows follow a's, level by level, under a's level names
pd_concat(a, b) == [a EXCEPT !.rows = a.rows \o b.rows]

\* line 174: does the later run's block take part in the merge
IsAppended(block) == block.type = "DataFrame"

\* lines 172-177 from position b on: the blocks after the loop, and the exception
\* that ended it ("" when none): concatBlocks[b] of a missing position is an
\* IndexError, pd.concat of a pwdt.Block is a TypeError
RECURSIVE MergeFrom(_, _, _)
MergeFrom(blocks, data, b) ==
    IF b > Len(data) THEN [blocks |-> blocks, exc |-> ""]
    ELSE IF ~IsAppended(data[b]) THEN MergeFrom(blocks, data, b + 1)
    ELSE IF b > Len(blocks) THEN [blocks |-> blocks, exc |-> "IndexError"]
    ELSE IF blocks[b].type # "DataFrame" THEN [blocks |-> blocks, exc |-> "TypeError"]
    ELSE MergeFrom([blocks EXCEPT ![b] = pd_concat(blocks[b], data[b])], data, b + 1)

(***************************************************************************)
(* LogFileHandler, logging.py                                              *)
(***************************************************************************)
\* __extract_value, lines 136-140: the first match, or None
extract_value(content, field) ==
    IF \E j \in DOMAIN content : content[j].field = field
    THEN Some(content[CHOOSE j \in DOMAIN content :
                  /\ content[j].field = field
                  /\ \A h \in 1..(j - 1) : content[h].field # field].value)
    ELSE None

\* a dict as the sequence of its <<key, value>> items in insertion order
DictHas(d, k) == \E j \in DOMAIN d : d[j][1] = k
DictSet(d, k, v) ==
    IF DictHas(d, k)
    THEN [j \in DOMAIN d |-> IF d[j][1] = k THEN <<k, v>> ELSE d[j]]
    ELSE Append(d, <<k, v>>)

\* the words the patterns of lines 105-106 look for at the start of a message
DetectedPrefix(field) ==
    IF field = "Warning detected"
    THEN <<"W", "a", "r", "n", "i", "n", "g", " ", "d", "e", "t", "e", "c", "t", "e", "d", " ">>
    ELSE <<"E", "r", "r", "o", "r", " ", "d", "e", "t", "e", "c", "t", "e", "d", " ">>

\* a message of the log as re.findall returns it: the header is the first line,
\* from "Warning detected" or "Error detected" on, the content what follows up
\* to and with the first empty line
MatchHeader(m) == DetectedPrefix(m.field) \o m.header

\* str.lstrip(chars): the leading characters that are in chars go
RECURSIVE lstrip(_, _)
lstrip(text, chars) ==
    IF text # <<>> /\ Head(text) \in chars THEN lstrip(Tail(text), chars) ELSE text

\* str.rstrip(chars)
RECURSIVE rstrip(_, _)
rstrip(text, chars) ==
    IF text # <<>> /\ text[Len(text)] \in chars
    THEN rstrip(SubSeq(text, 1, Len(text) - 1), chars)
    ELSE text

Whitespace == {" ", "\n", "\t"}
strip(text) == rstrip(lstrip(text, Whitespace), Whitespace)

\* a dict of lists: the list under k with v appended
DictAppend(d, k, v) == DictSet(d, k, IF DictHas(d, k) THEN Append(d[CHOOSE j \in DOMAIN d : d[j][1] = k][2], v) ELSE <<v>>)

\* __summarize_list_duplicates, lines 198-203: every distinct item once, the
\* most frequent first, with its count behind it when it came more than once
summarize_list_duplicates(inputList) ==
    LET items == unique(inputList)
        count(x) == Cardinality({j \in DOMAIN inputList : inputList[j] = x})
        byCount == Flatten([c \in 1..Len(inputList) |->
                       SelectSeq(items, LAMBDA x : count(x) = Len(inputList) + 1 - c)])
    IN  [j \in DOMAIN byCount |->
            IF count(byCount[j]) > 1
            THEN byCount[j] \o <<"\n", "(">> \o IntStr(count(byCount[j]))
                     \o <<" ", "O", "c", "c", "u", "r", "e", "n", "c", "e", "s", ")">>
            ELSE byCount[j]]

\* __extract_warnings_errors, lines 143-160, from message j of the log on
RECURSIVE GroupMatches(_, _, _)
GroupMatches(matches, j, groupedWarnings) ==
    IF j > Len(matches) THEN groupedWarnings
    ELSE LET header == MatchHeader(matches[j])
         IN  GroupMatches(matches, j + 1,
                 DictAppend(groupedWarnings, header,
                            strip(lstrip(strip(matches[j].body), Range(header)))))

\* __extract_warnings_errors: header -> the contents under it
extract_warnings_errors(content, field) ==
    LET matches == SelectSeq(content, LAMBDA m : m.field = field)
        groupedWarnings == GroupMatches(matches, 1, <<>>)
    IN  [j \in DOMAIN groupedWarnings |->
            <<groupedWarnings[j][1], summarize_list_duplicates(groupedWarnings[j][2])>>]

\* lines 99-133: the record of one finished worker
LogEntry(fw) ==
    [readError         |-> fw.readError,
     logContent        |-> fw.logStr,
     vars              |-> fw.vars,
     simulatorData     |-> [cpu |-> extract_value(fw.logStr, "Total CPU time")],
     simulatorErrors   |-> extract_warnings_errors(fw.logStr, "Error detected"),
     simulatorWarnings |-> extract_warnings_errors(fw.logStr, "Warning detected")]

\* __process_worker_logs, lines 95-133
RECURSIVE process_worker_logs(_, _)
process_worker_logs(data, fws) ==
    IF fws = <<>> THEN data
    ELSE process_worker_logs(DictSet(data, Head(fws).workerName, LogEntry(Head(fws))),
                             Tail(fws))

\* read_logfile, lines 27-37: the worker made of one entry of the log bundle;
\* the dict has no "readError" key, so that fw.get("readError") of line 103 is None
WorkerFromJson(workerName, data) ==
    [workerName |-> workerName, vars |-> data.vars, logStr |-> data.logContent,
     readError |-> None]

\* read_logfile, lines 22-38: self.data made anew from the entries of the file
read_logfile(json_data) ==
    process_worker_logs(<<>>, [j \in DOMAIN json_data |->
                                  WorkerFromJson(json_data[j][1], json_data[j][2])])

\* print_summary, lines 45-47: float(None) is a TypeError
CpuTimesParse(data) == \A j \in DOMAIN data : data[j][2].simulatorData.cpu # None

RECURSIVE SumCpu(_)
SumCpu(data) ==
    IF data = <<>> THEN 0
    ELSE data[1][2].simulatorData.cpu[1] + SumCpu(Tail(data))

\* __summarize_logfiles, lines 167-181: the read-error part of the summary
RECURSIVE summarize_logfiles(_, _)
summarize_logfiles(data, acc) ==
    IF data = <<>> THEN acc
    ELSE LET readError == data[1][2].readError
             counted == [acc EXCEPT !.totalSims = @ + 1]
         IN  summarize_logfiles(Tail(data),
                 IF readError # None
                 THEN [counted EXCEPT
                         !.readErrorCount = @ + 1,
                         !.errors = IF readError[1][1] \in Range(@) THEN @
                                    ELSE Append(@, readError[1][1])]
                 ELSE counted)

readErrorsSummary0 == [totalSims |-> 0, readErrorCount |-> 0, errors |-> <<>>]

\* lines 184-187 and 190-193 for one run: `for warning in simWarnings` goes over
\* the keys of the run's dict
RECURSIVE AppendRun(_, _, _)
AppendRun(warningsSummary, simWarnings, key) ==
    IF simWarnings = <<>> THEN warningsSummary
    ELSE AppendRun(DictAppend(warningsSummary, Head(simWarnings)[1], key),
                   Tail(simWarnings), key)

\* __summarize_logfiles, lines 171-193: warningsSummary or errorsSummary
RECURSIVE GroupByMessage(_, _, _)
GroupByMessage(data, field, warningsSummary) ==
    IF data = <<>> THEN warningsSummary
    ELSE GroupByMessage(Tail(data), field,
             AppendRun(warningsSummary,
                       IF field = "Warning detected" THEN data[1][2].simulatorWarnings
                       ELSE data[1][2].simulatorErrors,
                       data[1][1]))

\* print_summary, lines 62-93: the entries and, for each, whether it is printed
\* with "(All Simulations)" in place of the list of runs
PrintedEntries(data, field) ==
    LET entries == GroupByMessage(data, field, <<>>)
    IN  [j \in DOMAIN entries |->
            [text |-> entries[j][1], simulation_list |-> entries[j][2],
             allSimulations |-> Len(entries[j][2]) = Len(data)]]

\* what print_summary reports
Summary(data) ==
    [cumulatedCpuTime |-> SumCpu(data),
     readErrors       |-> summarize_logfiles(data, readErrorsSummary0),
     errors           |-> PrintedEntries(data, "Error detected"),
     warnings         |-> PrintedEntries(data, "Warning detected")]

\* write_logfile, lines 40-42: json.dump refuses an object that is no JSON value
JsonSerializable(data) ==
    \A j \in DOMAIN data :
        data[j][2].readError = None
        \/ \A h \in DOMAIN data[j][2].readError[1] : data[j][2].readError[1][h].kind = "str"

(***************************************************************************)
(* SimulationManager.run, lines 187-211: reconciliation                    *)
(***************************************************************************)
\* line 193
orig_ivarnames(ivarnames, sweepNames) ==
    SelectSeq(ivarnames, LAMBDA n : n \notin Range(sweepNames))

\* block.index.get_level_values(name)
get_level_values(block, name) ==
    LET p == CHOOSE q \in DOMAIN block.names :
                 /\ block.names[q] = name
                 /\ \A h \in 1..(q - 1) : block.names[h] # name
    IN  [r \in DOMAIN block.rows |-> block.rows[r].key[p]]

\* itertools.product / MultiIndex.from_product over a list of level values
RECURSIVE from_product(_)
from_product(levels) ==
    IF levels = <<>> THEN << <<>> >>
    ELSE LET rest == from_product(Tail(levels))
         IN  Flatten([x \in DOMAIN levels[1] |->
                         [t \in DOMAIN rest |-> <<levels[1][x]>> \o rest[t]]])

\* line 197: tuple(a + b) for a, b in product(sweep tuples, native tuples)
NewIndex(sweepTuples, nativeTuples) ==
    Flatten([a \in DOMAIN sweepTuples |->
                [b \in DOMAIN nativeTuples |-> sweepTuples[a] \o nativeTuples[b]]])

HasDuplicates(keys) == \E x, y \in DOMAIN keys : x # y /\ keys[x] = keys[y]

IndexKeys(block) == [r \in DOMAIN block.rows |-> block.rows[r].key]

\* faulty variant of reindex: keys the frame has no row for are left out
reindex_noFill(block, newIndex) ==
    [block EXCEPT !.rows =
        SelectSeq([j \in DOMAIN newIndex |->
                      [key |-> newIndex[j],
                       val |-> IF \E r \in DOMAIN block.rows : block.rows[r].key = newIndex[j]
                               THEN block.rows[CHOOSE r \in DOMAIN block.rows :
                                                   block.rows[r].key = newIndex[j]].val
                               ELSE NaN]],
                  LAMBDA row : row.val # NaN)]

\* DataFrame.reindex(newIndex) of pandas 1.4.4: a frame whose index is identical
\* to newIndex is returned as it is; otherwise the row of each key of newIndex,
\* NaN where the frame has none
reindex(block, newIndex) ==
    IF IndexKeys(block) = newIndex THEN block
    ELSE [block EXCEPT !.rows =
            [j \in DOMAIN newIndex |->
                [key |-> newIndex[j],
                 val |-> IF \E r \in DOMAIN block.rows : block.rows[r].key = newIndex[j]
                         THEN block.rows[CHOOSE r \in DOMAIN block.rows :
                                             block.rows[r].key = newIndex[j]].val
                         ELSE NaN]]]

\* lines 193-197: the index the frame is put on
TargetIndex(block, sweep) ==
    LET orig == orig_ivarnames(block.names, sweep.names)
        unique_values == [j \in DOMAIN orig |-> unique(get_level_values(block, orig[j]))]
    IN  NewIndex(sweep.tuples, from_product(unique_values))

\* line 198
Reindexed(block, sweep) == reindex(block, TargetIndex(block, sweep))

\* faulty variant of UnifiedBlock: the native names come before the sweep axis names
UnifiedBlock_nativeFirst(block, meta, sweep) ==
    [type     |-> "Block",
     names    |-> orig_ivarnames(block.names, sweep.names) \o sweep.names,
     rows     |-> Reindexed(block, sweep).rows,
     name     |-> meta.name,
     metadata |-> [meta.metadata EXCEPT !.ivarnames = Some(block.names)]]

\* lines 201-207: the pwdt.Block made of the reindexed frame
UnifiedBlock(block, meta, sweep) ==
    [type     |-> "Block",
     names    |-> block.names,
     rows     |-> Reindexed(block, sweep).rows,
     name     |-> meta.name,
     metadata |-> [meta.metadata EXCEPT !.ivarnames = Some(block.names)]]

\* lines 187-207 over all blocks
Reconcile(blocks, metas, sweep) ==
    [b \in DOMAIN blocks |->
        IF blocks[b].type = "DataFrame"
        THEN UnifiedBlock(blocks[b], metas[b], sweep)
        ELSE blocks[b]]

\* line 195: MultiIndex.from_product over no level at all raises ValueError
\* ("Must pass non-zero number of levels/codes"); this is the frame all of
\* whose level names are names of sweep variables
FromProductRaises(block, sweep) ==
    /\ block.type = "DataFrame"
    /\ orig_ivarnames(block.names, sweep.names) = <<>>

\* line 198: reindex raises ValueError on a frame with duplicate keys that is not
\* already on the target index
ReindexRaises(blocks, sweep) ==
    \E b \in DOMAIN blocks :
        /\ blocks[b].type = "DataFrame"
        /\ IndexKeys(blocks[b]) # TargetIndex(blocks[b], sweep)
        /\ HasDuplicates(IndexKeys(blocks[b]))

\* lines 187-202: where the loop over the blocks raises, "" if it does not;
\* concatBlocksMetadata[nBlock] of line 202 is an IndexError for a frame past
\* the end of the metadata list
ReconcileRaises(blocks, metas, sweep) ==
    LET site(b) == IF blocks[b].type # "DataFrame" THEN ""
                   ELSE IF FromProductRaises(blocks[b], sweep) THEN "from_product"
                   ELSE IF ReindexRaises(<<blocks[b]>>, sweep) THEN "reindex"
                   ELSE IF b \notin DOMAIN metas THEN "metadata"
                   ELSE ""
        bad == {b \in DOMAIN blocks : site(b) # ""}
    IN  IF bad = {} THEN "" ELSE site(CHOOSE b \in bad : \A c \in bad : b <= c)

(***************************************************************************)
(* SimulationHandler.__init__ and __del__, lines 344-371, with             *)
(* utilities.fast_copy_dir and utilities.modify_netlist                    *)
(***************************************************************************)
DictGet(d, k) == d[CHOOSE j \in DOMAIN d : d[j][1] = k][2]

\* faulty variant of DictMerge: an entry of a is kept when b has the key too
RECURSIVE DictMerge_firstWins(_, _)
DictMerge_firstWins(a, b) ==
    IF b = <<>> THEN a
    ELSE DictMerge_firstWins(IF DictHas(a, Head(b)[1]) THEN a ELSE Append(a, Head(b)), Tail(b))

\* {**a, **b}
RECURSIVE DictMerge(_, _)
DictMerge(a, b) ==
    IF b = <<>> THEN a ELSE DictMerge(DictSet(a, Head(b)[1], Head(b)[2]), Tail(b))

\* a line of a netlist is the sequence of its characters; "name=value\n" and
\* "global name=value\n" are the lines that set a variable
GlobalPrefix == <<"g", "l", "o", "b", "a", "l", " ">>
NetlistLine(global, name, value) ==
    (IF global THEN GlobalPrefix ELSE <<>>) \o Chars(name) \o <<"=">> \o value \o <<"\n">>

\* the first line of a netlist ADS writes: a comment that holds the quoted
\* hierarchy library:cell:view
HierarchyLine == <<";", " ", "\"", "l", ":", "c", ":", "v", "\"", "\n">>

\* the netlist of the template workspace
TemplateNetlist == <<HierarchyLine,
                     NetlistLine(FALSE, "bias", <<"0">>), NetlistLine(TRUE, "gain", <<"0">>),
                     NetlistLine(FALSE, "load", <<"0">>)>>

\* str.split(sep) for a separator of one character
RECURSIVE split(_, _)
split(chars, sep) ==
    IF \A k \in DOMAIN chars : chars[k] # sep THEN <<chars>>
    ELSE LET n == CHOOSE k \in DOMAIN chars :
                      chars[k] = sep /\ \A h \in 1..(k - 1) : chars[h] # sep
         IN  <<SubSeq(chars, 1, n - 1)>> \o split(SubSeq(chars, n + 1, Len(chars)), sep)

\* re.findall('"([^"]*)"', line): the texts between a quote and the next one,
\* from left to right without overlap, which are the even parts of the line
\* cut at its quotes
findall_quoted(line) ==
    LET parts == split(line, "\"")
    IN  [j \in 1..((Len(parts) - 1) \div 2) |-> parts[2 * j]]

\* utilities.get_cell_name_from_netlist, lines 168-171: the last but one part of
\* the first quoted text of the first line; IndexError when the line holds no
\* quoted text or the text no colon
get_cell_name_from_netlist(lines) ==
    LET first  == IF lines = <<>> THEN <<>> ELSE lines[1]
        quoted == findall_quoted(first)
        hierarchy == split(quoted[1], ":")
    IN  IF quoted = <<>> \/ Len(hierarchy) < 2
        THEN [exc |-> "IndexError", name |-> None]
        ELSE [exc |-> "", name |-> Some(hierarchy[Len(hierarchy) - 1])]

\* str.startswith
startswith(line, prefix) ==
    Len(line) >= Len(prefix) /\ SubSeq(line, 1, Len(prefix)) = prefix

\* faulty variant of PatchLine: the rewritten line loses its "global "
RECURSIVE PatchLine_globalDropped(_, _)
PatchLine_globalDropped(line, vars_dict) ==
    IF vars_dict = <<>> THEN line
    ELSE LET var_name  == Head(vars_dict)[1]
             var_value == Head(vars_dict)[2]
         IN  PatchLine_globalDropped(
                 IF \/ startswith(line, Chars(var_name) \o <<"=">>)
                    \/ startswith(line, GlobalPrefix \o Chars(var_name) \o <<"=">>)
                 THEN NetlistLine(FALSE, var_name, var_value.s)
                 ELSE line,
                 Tail(vars_dict))

\* utilities.modify_netlist, lines 136-142: one line against the variables in
\* turn, each against the line as the variables before it left it
RECURSIVE PatchLine(_, _)
PatchLine(line, vars_dict) ==
    IF vars_dict = <<>> THEN line
    ELSE LET var_name  == Head(vars_dict)[1]
             var_value == Head(vars_dict)[2]
         IN  PatchLine(IF startswith(line, Chars(var_name) \o <<"=">>)
                       THEN NetlistLine(FALSE, var_name, var_value.s)
                       ELSE IF startswith(line, GlobalPrefix \o Chars(var_name) \o <<"=">>)
                       THEN NetlistLine(TRUE, var_name, var_value.s)
                       ELSE line,
                       Tail(vars_dict))

\* file.readlines(), line 129: the text of a file cut after every newline; only
\* the last line can be without one
RECURSIVE readlines(_)
readlines(text) ==
    IF text = <<>> THEN <<>>
    ELSE LET n == IF \E k \in DOMAIN text : text[k] = "\n"
                  THEN CHOOSE k \in DOMAIN text :
                           text[k] = "\n" /\ \A h \in 1..(k - 1) : text[h] # "\n"
                  ELSE Len(text)
         IN  <<SubSeq(text, 1, n)>> \o readlines(SubSeq(text, n + 1, Len(text)))

\* file.writelines(), line 146: the lines one after the other
writelines(lines) == Flatten(lines)

\* utilities.modify_netlist, lines 131-142, on the lines readlines() gave
modify_netlist(lines, vars_dict) == [j \in DOMAIN lines |-> PatchLine(lines[j], vars_dict)]

\* the directories under MAS_workspaceDir/temp are a set of <<path, content>>
\* pairs, one pair for a path; the content of a directory is where it comes
\* from, the mkdir that made it (<<sweep, run>>: a directory removed and made
\* again at the same path is another directory), its netlist file and its
\* dataset file, None for a file that is not there
DirHas(dirs, dir) == \E e \in dirs : e[1] = dir
DirGet(dirs, dir) == (CHOOSE e \in dirs : e[1] = dir)[2]
DirRemove(dirs, dir) == {e \in dirs : e[1] # dir}
DirSet(dirs, dir, content) == DirRemove(dirs, dir) \cup {<<dir, content>>}

\* the dataset file <ADS_cellName>.ds as the simulator of run i of sweep n writes
\* it: the blocks pwdt.read_file finds in it, or the exception it raises on it
DatasetFile(n, i, members, fault) ==
    [sweep |-> n, run |-> i, members |-> members, fault |-> fault]

\* a file is told from any other file that is or was at its name by the
\* process that made it: run i of sweep n with its cp, its open(path, 'w') or
\* its simulator.  ino of a directory holds that for each of its files
FileId(n, i, maker, f) == <<n, i, maker, f>>

\* a dataset file that holds nothing, and one that holds bytes of the dataset
\* file over bytes another process has written
EmptyDataset == DatasetFile(0, 0, <<>>, "empty")
MixedDataset(file) == [file EXCEPT !.fault = "mixed"]

\* a file that has just been made holds nothing
EmptyFile(f) == IF f = "netlist" THEN <<>> ELSE EmptyDataset

\* the file fid is still at the name f of the directory at dir
HasFile(dirs, dir, f, fid) == DirHas(dirs, dir) /\ DirGet(dirs, dir).ino[f] = Some(fid)

\* the directory at dir with the content of its file f set
SetFile(dirs, dir, f, content) ==
    DirSet(dirs, dir, [DirGet(dirs, dir) EXCEPT ![f] = Some(content)])

\* a file is made at the name f of the directory at dir
creat(dirs, dir, f, fid) ==
    DirSet(dirs, dir, [DirGet(dirs, dir) EXCEPT ![f] = Some(EmptyFile(f)),
                                                !.ino[f] = Some(fid)])

\* os.path.isdir, line 363, and os.path.exists, utilities.py line 105
isdir(dirs, dir) == DirHas(dirs, dir)

\* the files of a workspace directory
RunFiles == {"netlist", "dataset"}

\* the files that are in a directory
FilesIn(content) == {f \in RunFiles : content[f] # None}

\* rm -rf, utilities.py line 106 and simulation.py line 371, with no other
\* process at work on the directory and every file removable
rm_rf(dirs, dir) == DirRemove(dirs, dir)

\* rm -rf removes the file f of the directory id it has listed; a file or a
\* directory that is gone by then is passed over
unlink(dirs, dir, id, f) ==
    IF DirHas(dirs, dir) /\ DirGet(dirs, dir).id = id
    THEN DirSet(dirs, dir, [DirGet(dirs, dir) EXCEPT ![f] = None, !.ino[f] = None])
    ELSE dirs

\* rm -rf removes the directory that is at the path in the end, which it can
\* only if the directory is empty
rmdir(dirs, dir) ==
    IF DirHas(dirs, dir) /\ FilesIn(DirGet(dirs, dir)) = {} THEN DirRemove(dirs, dir) ELSE dirs

\* cp -r src dst, utilities.py line 109, when it starts: dst is made if it is
\* not there; if it is there the copy goes into a directory below it, and
\* the files at dst stay what they are
cp_mkdir(dirs, dir, id) ==
    IF DirHas(dirs, dir) THEN dirs
    ELSE DirSet(dirs, dir, [origin |-> "template", id |-> id, netlist |-> None,
                            dataset |-> None,
                            ino |-> [netlist |-> None, dataset |-> None]])

\* a dataset <ADS_cellName>.ds that a simulation run in the template workspace
\* itself has left there
TemplateDataset == DatasetFile(0, 0, Dataset(0, <<"freq">>, 1..MaxNative), "")

\* the files of the template workspace ADS_workspaceDir: its netlist and its
\* dataset, None for a file the workspace does not hold
TemplateWorkspace(netlist, dataset) ==
    [netlist |-> IF netlist THEN Some(TemplateNetlist) ELSE None,
     dataset |-> IF dataset THEN Some(TemplateDataset) ELSE None]

\* the argument workspace_dir: the path of a directory <name>_wrk, relative or
\* absolute, and the files of that directory
WorkspaceDir(netlist, dataset, relative) ==
    [name |-> WrkName, relative |-> relative,
     netlist |-> TemplateWorkspace(netlist, dataset).netlist,
     dataset |-> TemplateWorkspace(netlist, dataset).dataset]

\* a write of the lines at the start of a file that holds the lines old: the
\* bytes written take the place of as many bytes of the file, and what the
\* file holds beyond them stays
Overwrite(old, lines) ==
    LET text == writelines(lines)
        was  == writelines(old)
    IN  readlines(text \o SubSeq(was, Len(text) + 1, Len(was)))

\* cp -r src dst comes to the file f of src: it makes the file at dst with
\* O_CREAT | O_EXCL, which it cannot where dst is gone (ENOENT) or a file of
\* that name is there (EEXIST); such a file stays what it is, and cp goes on
\* to the next file
CanCreate(dirs, dir, f) == DirHas(dirs, dir) /\ DirGet(dirs, dir)[f] = None

cp_open(dirs, dir, f, fid) == IF CanCreate(dirs, dir, f) THEN creat(dirs, dir, f, fid) ELSE dirs

\* cp -r src dst copies the data of the file f of src into the file fid it has
\* made, from the start of the file; a file that has been removed since takes
\* the data with it.  Over a dataset file another process has written into
\* since, the bytes of the two are mixed
cp_write(dirs, dir, f, fid, src) ==
    IF ~HasFile(dirs, dir, f, fid) THEN dirs
    ELSE IF f = "netlist"
    THEN SetFile(dirs, dir, f, Overwrite(DirGet(dirs, dir).netlist[1], src.netlist[1]))
    ELSE SetFile(dirs, dir, f, IF DirGet(dirs, dir).dataset[1] = EmptyDataset
                               THEN src.dataset[1]
                               ELSE MixedDataset(src.dataset[1]))

\* cp -r src dst on the file f of src, with no other process at work on dst
cp_file(dirs, dir, f, src, fid) ==
    IF src[f] # None /\ CanCreate(dirs, dir, f)
    THEN cp_write(cp_open(dirs, dir, f, fid), dir, f, fid, src)
    ELSE dirs

\* cp -r src dst after it has made dst, as the process of run id[2] of sweep
\* id[1] and with no other process at work on dst: every file of src is
\* copied to dst
cp_files(dirs, dir, src, id) ==
    cp_file(cp_file(dirs, dir, "netlist", src, FileId(id[1], id[2], "cp", "netlist")),
            dir, "dataset", src, FileId(id[1], id[2], "cp", "dataset"))

\* utilities.fast_copy_dir, lines 101-109, with no other process at work on dst
\* and an rm that exits with 0
fast_copy_dir(dirs, dir, src, id) ==
    cp_files(cp_mkdir(rm_rf(dirs, dir), dir, id), dir, src, id)

\* a directory an earlier sweep left behind, with the netlist as that sweep patched it
\* and the dataset its simulator wrote
Leftover == [origin |-> "leftover", id |-> <<0, 1>>,
             netlist |-> Some(modify_netlist(TemplateNetlist, <<<<"load", IntV(7)>>>>)),
             dataset |-> Some(DatasetFile(0, 1, Dataset(0, <<"freq">>, 1..MaxNative), "")),
             ino |-> [netlist |-> Some(FileId(0, 1, "cp", "netlist")),
                      dataset |-> Some(FileId(0, 1, "sim", "dataset"))]]

\* that directory without its netlist
LeftoverBare == [Leftover EXCEPT !.netlist = None, !.ino.netlist = None]

\* line 277: use_existing_temp_files=bool(self.set_static_vars), the truth value
\* of a bound method
use_existing_temp_files == TRUE

\* utilities.py lines 128-129: open(path, 'r') and readlines() give the lines of
\* the netlist, None standing for the FileNotFoundError of open
ReadNetlist(dirs, dir) == IF DirHas(dirs, dir) THEN DirGet(dirs, dir).netlist ELSE None

\* utilities.py line 145: open(path, 'w') in a directory that is there makes
\* the file, as the file fid, or empties the file that is there
open_w(dirs, dir, fid) ==
    IF DirGet(dirs, dir).netlist = None THEN creat(dirs, dir, "netlist", fid)
    ELSE SetFile(dirs, dir, "netlist", <<>>)

\* utilities.py line 146: writelines() and the close of the with block write
\* the lines at the start of the file fid that was opened; what another
\* process has written into the file beyond them stays, and a file that has
\* been removed since takes the lines with it
write_lines(dirs, dir, fid, lines) ==
    IF HasFile(dirs, dir, "netlist", fid)
    THEN SetFile(dirs, dir, "netlist", Overwrite(DirGet(dirs, dir).netlist[1], lines))
    ELSE dirs

\* utilities.py lines 145-146 with no other process at work on the directory
WriteNetlist(dirs, dir, lines, fid) ==
    LET opened == open_w(dirs, dir, fid)
    IN  write_lines(opened, dir, DirGet(opened, dir).ino.netlist[1], lines)

\* os.chdir, line 382: the working directory of the pool process and of the
\* simulator it starts is the directory that is at dir at that moment
getcwd(dirs, dir) == DirGet(dirs, dir).id

\* the working directory wd of a simulator is still there, at the path dir
InCwd(dirs, dir, wd) == DirHas(dirs, dir) /\ DirGet(dirs, dir).id = wd

\* the simulator writes its dataset into its working directory, in the place
\* of any file of that name; in a working directory that has been removed it
\* can write no file
WriteDataset(dirs, dir, wd, file) ==
    IF file # None /\ InCwd(dirs, dir, wd)
    THEN DirSet(dirs, dir,
                [DirGet(dirs, dir) EXCEPT
                    !.dataset = file,
                    !.ino.dataset = IF @ = None
                                    THEN Some(FileId(file[1].sweep, file[1].run, "sim", "dataset"))
                                    ELSE @])
    ELSE dirs

\* lines 281 and 290: the dataset file at origDataFilePath, None when there is none
read_file(dirs, dir) == IF DirHas(dirs, dir) THEN DirGet(dirs, dir).dataset ELSE None

\* lines 345-361 of SimulationHandler.__init__: the handler of a run before it
\* has touched a file.  reused and made tell what lines 363 and 109 found,
\* lines, origin and netlist what modify_netlist read and wrote, cwd the
\* directory os.chdir went to, outcome the way the worker function was left,
\* read the dataset it read.  rm is the rm of __del__: "" not run, "pending" to
\* be run, "run" and "bad" at work without and with a file it could not
\* remove, "ok" and "failed" its exit status.  todo are the files a cp or an
\* rm at work has still to go through, fd the directory an rm has listed or
\* modify_netlist has its file open in
NewHandler(d, static) ==
    [dir |-> TempWorkspaceDir(d), patch |-> DictMerge(d, static), reused |-> FALSE,
     made |-> FALSE, lines |-> None, origin |-> "", netlist |-> None, cwd |-> None,
     outcome |-> "", rm |-> "", read |-> None, todo |-> {}, fd |-> None]

\* lines 344-366: SimulationHandler.__init__ with no other process at work on
\* the directory, over the template workspace src: the exception it raises, and
\* the directories afterwards, a directory it makes being the directory id
HandlerInit(d, static, dirs, src, use_existing, id) ==
    LET h      == NewHandler(d, static)
        reuse  == use_existing /\ isdir(dirs, h.dir)
        copied == IF reuse THEN dirs ELSE fast_copy_dir(dirs, h.dir, src, id)
        lines  == ReadNetlist(copied, h.dir)
        modified_lines == modify_netlist(lines[1], h.patch)
    IN  IF lines = None
        THEN [exc |-> "FileNotFoundError", dirs |-> copied,
              handler |-> [h EXCEPT !.reused = reuse, !.made = ~reuse]]
        ELSE [exc |-> "", dirs |-> WriteNetlist(copied, h.dir, modified_lines,
                                                FileId(id[1], id[2], "open", "netlist")),
              handler |-> [h EXCEPT !.reused = reuse, !.made = ~reuse, !.lines = lines,
                                    !.origin = DirGet(copied, h.dir).origin,
                                    !.netlist = Some(modified_lines)]]

\* update_environment, lines 373-379: HPEESOF_DIR and PATH of os.environ are
\* assigned in the process that constructs the handler
update_environment(writes, process) ==
    Append(writes, [process |-> process, keys |-> {"HPEESOF_DIR", "PATH"}])

\* the ways _sim_worker_fcn returns, lines 285, 296, 301 and 323
ReturnPaths == {"ok", "missing", "unreadable"}

\* the way the worker function is left with the outcome ret after it has looked
\* for file: lines 285, 296 and 301, 323, or an exception
PathOf(file, ret) ==
    IF ret.raised # "" THEN "raised"
    ELSE IF file = None THEN "missing"
    ELSE IF ret.data # None THEN "ok"
    ELSE "unreadable"

\* the states of the rm of a handler that is at work
RmAtWork == {"run", "bad"}

\* the exit status of an rm -rf that has gone through the directory: 1 if it
\* could not remove a file or the directory, which is then still there
RmExit(rm, dirs, dir) == IF rm = "bad" \/ DirHas(dirs, dir) THEN "failed" ELSE "ok"

(***************************************************************************)
(* The state machine                                                       *)
(***************************************************************************)
Sweep == newSweepingVars[1]
NRuns == Len(Sweep.tuples)

NotStarted ==
    /\ task = <<>>
    /\ result = <<>>
    /\ finishedWorkers = <<>>
    /\ isFirstValidWorker = TRUE
    /\ concatBlocks = <<>>
    /\ concatBlocksMetadata = <<>>
    /\ simOutput = <<>>
    /\ logData = <<>>
    /\ summary = None
    /\ logFile = "absent"
    /\ simResults = None
    /\ firstData = None
    /\ slot = <<>>
    /\ cwd = <<>>
    /\ faults = 0
    /\ handlerLog = <<>>
    /\ outFiles = {}
    /\ writeCall = None
    /\ envWrites = <<>>
    /\ prevRun = None

InitArgs(v, names, workspace, cmd) ==
    /\ pc = "new"
    /\ exc = ""
    /\ excSite = ""
    /\ vars = v
    /\ var_names = names
    /\ workspace_dir = workspace
    /\ ads_startup_cmd = cmd
    /\ newSweepingVars = None
    /\ dirsCreated = FALSE
    /\ NotStarted

InitWith(v, names, workspace, cmd) ==
    /\ InitArgs(v, names, workspace, cmd)
    /\ maxPoolSize = MaxWorkers

\* the runs of a sweep are distinct, except that the last may repeat the first
Patterns == {s \in SeqsUpTo(1..MaxRuns, MaxRuns) :
                /\ \A i \in 1..(Len(s) - 1) : s[i] = i
                /\ s[Len(s)] \in {1, Len(s)}}

\* the two-axis tuple list of a pattern, with the names of its axes
TupleSweep(s) ==
    <<[kind |-> "list", names |-> <<>>,
       items |-> [i \in DOMAIN s |-> TupleItem(<<IntV(s[i]), IntV(s[i] + MaxRuns)>>)]],
      [kind |-> "list", v |-> NamesOf(2)]>>

\* the sweeps that are run with everything a simulator can write: two-axis
\* lists of distinct tuples, and a single number under the name of its axis
RunSweeps ==
    {TupleSweep(s) : s \in {p \in Patterns : \A i \in DOMAIN p : p[i] = i}}
    \cup {<<[kind |-> "list", names |-> <<>>, items |-> <<NumItem(IntV(1))>>],
            [kind |-> "str", v |-> <<AxisNames[1]>>]>>}

\* no static variables, temp files not kept, no directory left over
DefaultHandler ==
    /\ staticVars = <<>>
    /\ keepTempFiles = FALSE
    /\ tempDirs = {}

\* no function is called on its own
NoCall ==
    /\ fnArgs = None
    /\ fnOut = None

\* a sweep, a template workspace under a relative or an absolute path, and
\* max_workers
Init ==
    /\ \E a \in RunSweeps, relative \in BOOLEAN :
          InitArgs(a[1], a[2], WorkspaceDir(TRUE, FALSE, relative), "None")
    /\ maxPoolSize \in 1..MaxWorkers
    /\ writeLogs \in BOOLEAN
    /\ DefaultHandler
    /\ NoCall

\* the arguments the normaliser is checked on
InitNorm ==
    \E v \in ScalarLists \cup TupleLists \cup MultiIndexes \cup MixedLists \cup RaggedLists,
       names \in VarNamesArgs :
        /\ InitWith(v, names, WorkspaceDir(TRUE, FALSE, FALSE), "None")
        /\ writeLogs = TRUE
        /\ DefaultHandler
        /\ NoCall

Raise(e, site) ==
    /\ pc' = "raised"
    /\ exc' = e
    /\ excSite' = site

\* SimulationManager.__init__, lines 67-140: the sweep (72-94), the netlist
\* (102-103), ads_startup_cmd (110-115), the cell name (122) and the MAS paths
\* (124) of self.dirs, os.makedirs (132-134) and the last attributes (136-140)
Construct ==
    /\ pc = "new"
    /\ LET idx == Normalize(vars, var_names)
       IN  IF idx = None
           THEN /\ Raise(CheckVars(vars, var_names).exc, "vars")
                /\ UNCHANGED <<newSweepingVars, dirsCreated, simResults, staticVars>>
           ELSE /\ newSweepingVars' = idx
                /\ IF workspace_dir.netlist = None
                   THEN /\ Raise("FileNotFoundError", "netlist")
                        /\ UNCHANGED <<dirsCreated, simResults, staticVars>>
                   ELSE IF StartupCmd(ads_startup_cmd).exc # ""
                   THEN /\ Raise(StartupCmd(ads_startup_cmd).exc, "ads_startup_cmd")
                        /\ UNCHANGED <<dirsCreated, simResults, staticVars>>
                   ELSE IF get_cell_name_from_netlist(workspace_dir.netlist[1]).exc # ""
                   THEN /\ Raise(get_cell_name_from_netlist(workspace_dir.netlist[1]).exc,
                                 "ADS_cellName")
                        /\ UNCHANGED <<dirsCreated, simResults, staticVars>>
                   ELSE IF ADS_workspaceName(workspace_dir.name) = None
                   THEN /\ Raise("TypeError", "MAS_workspaceDir")
                        /\ UNCHANGED <<dirsCreated, simResults, staticVars>>
                   ELSE /\ dirsCreated' = TRUE
                        /\ simResults' = None
                        /\ staticVars' = <<>>
                        /\ pc' = "constructed"
                        /\ UNCHANGED <<exc, excSite>>
    /\ UNCHANGED <<vars, var_names, workspace_dir, ads_startup_cmd, writeLogs, maxPoolSize,
                   task, result, finishedWorkers, isFirstValidWorker, concatBlocks,
                   concatBlocksMetadata, simOutput, logData, summary, logFile>>
    /\ UNCHANGED <<firstData, keepTempFiles, tempDirs, slot, cwd, faults, handlerLog, envWrites,
                   write_vars, call_vars>>

\* faulty variant of NewList: the list of the previous call of run() is taken up
NewList_kept(previous) == previous

\* lines 145-147: finishedWorkers, concatBlocks and concatBlocksMetadata are new
\* empty lists in every call of run()
NewList(previous) == <<>>

\* run(), lines 145-157: the locals, the pool and one task per sweep tuple
StartRun ==
    /\ pc = "constructed"
    /\ pc' = "pool"
    /\ task' = [i \in 1..NRuns |-> "queued"]
    /\ result' = [i \in 1..NRuns |-> None]
    /\ finishedWorkers' = NewList(finishedWorkers)
    /\ concatBlocks' = NewList(concatBlocks)
    /\ concatBlocksMetadata' = NewList(concatBlocksMetadata)
    /\ isFirstValidWorker' = TRUE
    /\ simOutput' = [i \in 1..NRuns |-> None]
    /\ UNCHANGED <<exc, excSite, vars, var_names, workspace_dir, ads_startup_cmd,
                   newSweepingVars, dirsCreated, writeLogs, maxPoolSize, logData, summary,
                   logFile, simResults>>
    /\ firstData' = None
    /\ slot' = [i \in 1..NRuns |-> 0]
    /\ cwd' = [w \in 1..maxPoolSize |-> None]
    /\ handlerLog' = [i \in 1..NRuns |-> None]
    /\ UNCHANGED <<staticVars, keepTempFiles, tempDirs, faults, envWrites, write_vars,
                   call_vars>>

\* the dict of run i, line 276
RunVars(i) == VarsDict(Sweep.names, Sweep.tuples[i])

\* the sweep run() is working on: the first, or the one after it
CurrentSweep == IF prevRun = None THEN 1 ELSE 2

\* the pool of line 149 is never closed, terminated or joined: its processes
\* take the tasks of the queue while run() is in its loop and after an
\* exception has left run()
PoolAlive == pc \in {"pool", "raised"}

\* where a pool process is in _sim_worker_fcn for a task it has taken
InProcess == {"running", "copy", "rmcopy", "cp", "cpfiles", "cpwrite", "patch", "write", "writing",
              "copied", "alive", "exited", "reading", "del", "rm", "return"}

Active == {i \in DOMAIN task : task[i] \in InProcess}

\* a pool process has run i in hand until the worker function is left and the
\* handler of the run is gone
Busy(i) ==
    i \in Active \/ (handlerLog[i] # None /\ handlerLog[i][1].rm \in {"pending"} \cup RmAtWork)

\* faulty variant of IdleWorkers: a pool process takes a task while it has one
IdleWorkers_all == 1..maxPoolSize

\* the pool processes that are waiting for a task
IdleWorkers == {w \in 1..maxPoolSize : \A i \in DOMAIN task : Busy(i) => slot[i] # w}

\* the pool processes that have not taken a task yet; they are numbered in the
\* order in which they take their first task
Fresh == {w \in 1..maxPoolSize : \A i \in DOMAIN slot : slot[i] # w}

\* what a step of a pool process leaves alone
CoordUnchanged ==
    UNCHANGED <<pc, exc, excSite, vars, var_names, workspace_dir, ads_startup_cmd,
                newSweepingVars, dirsCreated, writeLogs, maxPoolSize,
                finishedWorkers, isFirstValidWorker, concatBlocks, concatBlocksMetadata,
                logData, summary, logFile, simResults,
                staticVars, keepTempFiles, write_vars, call_vars>>

\* multiprocessing.Pool: the idle pool process w takes the next task of the
\* queue and enters _sim_worker_fcn, lines 276-277; SimulationHandler.__init__,
\* lines 345-361, assigns the environment of the process and names the directory
TakeTask(w, i) ==
    /\ PoolAlive
    /\ task[i] = "queued"
    /\ \A j \in 1..(i - 1) : task[j] # "queued"
    /\ w \in IdleWorkers
    /\ w \in Fresh => \A v \in Fresh : w <= v
    /\ task' = [task EXCEPT ![i] = "running"]
    /\ slot' = [slot EXCEPT ![i] = w]
    /\ envWrites' = update_environment(envWrites, w)
    /\ handlerLog' = [handlerLog EXCEPT ![i] = Some(NewHandler(RunVars(i), staticVars))]
    /\ UNCHANGED <<result, simOutput, firstData, tempDirs, cwd, faults>>
    /\ CoordUnchanged

\* what the environment did with a run whose handler raised the exception e
HandlerErrorEnv(e) == [kind |-> "handlerError", error |-> e, logStr |-> <<>>, members |-> <<>>]

\* the dataset file the simulator of run i of sweep n writes, None when it writes none
EnvFile(n, i, env) ==
    IF env.kind \in {"ok", "unreadable"}
    THEN Some(DatasetFile(n, i, env.members, env.error))
    ELSE None

\* pool.imap hands the results over in the order of the sweep index
NextInOrder == CHOOSE i \in DOMAIN task : task[i] # "consumed" /\ \A j \in 1..(i - 1) : task[j] = "consumed"

\* one pass of the loop of lines 157-177
Consume ==
    /\ pc = "pool"
    /\ \E i \in DOMAIN task : task[i] # "consumed"
    /\ LET i == NextInOrder
           retvals == result[i][1]
       IN  /\ task[i] = "finished"
           /\ IF retvals.raised # ""
              THEN /\ Raise(retvals.raised, "imap")
                   /\ task' = [task EXCEPT ![i] = "consumed"]
                   /\ result' = [result EXCEPT ![i] = None]
                   /\ UNCHANGED <<finishedWorkers, isFirstValidWorker, concatBlocks,
                                  concatBlocksMetadata>>
              ELSE /\ finishedWorkers' = Append(finishedWorkers, retvals.fw)
                   /\ IF retvals.data = None
                      THEN /\ pc' = "pool"
                           /\ task' = [task EXCEPT ![i] = "consumed"]
                           /\ result' = [result EXCEPT ![i] = None]
                           /\ UNCHANGED <<exc, excSite, isFirstValidWorker, concatBlocks,
                                          concatBlocksMetadata>>
                      ELSE IF isFirstValidWorker
                      THEN /\ concatBlocksMetadata' = retvals.metadata[1]
                           /\ concatBlocks' = concatBlocks \o retvals.data[1]
                           /\ isFirstValidWorker' = FALSE
                           /\ pc' = "pool"
                           /\ task' = [task EXCEPT ![i] = "consumed"]
                           /\ result' = [result EXCEPT ![i] = None]
                           /\ UNCHANGED <<exc, excSite>>
                      ELSE LET merged == MergeFrom(concatBlocks, retvals.data[1], 1)
                           IN  /\ concatBlocks' = merged.blocks
                               /\ IF merged.exc # ""
                                  THEN /\ Raise(merged.exc, "concat")
                                       /\ task' = [task EXCEPT ![i] = "consumed"]
                                       /\ result' = [result EXCEPT ![i] = None]
                                  ELSE /\ pc' = "pool"
                                       /\ task' = [task EXCEPT ![i] = "consumed"]
                                       /\ result' = [result EXCEPT ![i] = None]
                                       /\ UNCHANGED <<exc, excSite>>
                               /\ UNCHANGED <<isFirstValidWorker, concatBlocksMetadata>>
    /\ UNCHANGED <<vars, var_names, workspace_dir, ads_startup_cmd, newSweepingVars,
                   dirsCreated, writeLogs, maxPoolSize, simOutput, logData, summary,
                   logFile, simResults>>
    /\ UNCHANGED <<firstData, handler_vars, write_vars, call_vars>>

\* run(), lines 178-214: the report, the log bundle and the unified dataset
AfterPool ==
    /\ pc = "pool"
    /\ \A i \in DOMAIN task : task[i] = "consumed"
    /\ LET data == process_worker_logs(<<>>, finishedWorkers)
       IN  /\ logData' = data
           /\ IF ~CpuTimesParse(data)
              THEN /\ Raise("TypeError", "print_summary")
                   /\ UNCHANGED <<summary, logFile, concatBlocks, simResults>>
              ELSE /\ summary' = Some(Summary(data))
                   /\ IF writeLogs /\ ~JsonSerializable(data)
                      THEN /\ Raise("TypeError", "write_logfile")
                           /\ logFile' = "partial"
                           /\ UNCHANGED <<concatBlocks, simResults>>
                      ELSE /\ logFile' = IF writeLogs THEN "written" ELSE logFile
                           /\ IF ReconcileRaises(concatBlocks, concatBlocksMetadata, Sweep) # ""
                              THEN /\ Raise(IF ReconcileRaises(concatBlocks, concatBlocksMetadata,
                                                               Sweep) = "metadata"
                                            THEN "IndexError" ELSE "ValueError",
                                            ReconcileRaises(concatBlocks, concatBlocksMetadata,
                                                            Sweep))
                                   /\ UNCHANGED <<concatBlocks, simResults>>
                              ELSE /\ concatBlocks' = Reconcile(concatBlocks,
                                                                concatBlocksMetadata, Sweep)
                                   /\ simResults' = Some(concatBlocks')
                                   /\ pc' = "done"
                                   /\ UNCHANGED <<exc, excSite>>
    /\ UNCHANGED <<vars, var_names, workspace_dir, ads_startup_cmd, newSweepingVars,
                   dirsCreated, writeLogs, maxPoolSize, task, result, finishedWorkers,
                   isFirstValidWorker, concatBlocksMetadata, simOutput>>
    /\ UNCHANGED <<firstData, handler_vars, write_vars, call_vars>>

(***************************************************************************)
(* One run inside a pool process, step by step: SimulationHandler.__init__ *)
(* with fast_copy_dir and modify_netlist, run (lines 381-412), the rest of *)
(* _sim_worker_fcn (lines 280-323) and __del__.  rm and cp are child       *)
(* processes that go through a directory file by file.                     *)
(***************************************************************************)
\* the handler of run i with the fields of h set
Log(i, h) == [handlerLog EXCEPT ![i] = Some(h)]

\* Path(workspace_dir), line 98, is never resolved: a relative workspace_dir
\* makes every path of self.dirs relative, and a pool process resolves them
\* against its working directory.  Until its first os.chdir (line 382) that is
\* the directory the pool was made in, and the paths name what they are meant
\* to name; afterwards they name places under a run directory, where nothing is
Resolves(w) == ~workspace_dir.relative \/ cwd[w] = None

\* the directories the pool process of run i finds at the paths of self.dirs
See(i) == IF Resolves(slot[i]) THEN tempDirs ELSE {}

\* an exception leaves _sim_worker_fcn with the handler h: the pool process
\* hands it back, and the handler, which the traceback holds, goes afterwards
FailFrom(i, h, e) ==
    /\ task' = [task EXCEPT ![i] = "finished"]
    /\ result' = [result EXCEPT ![i] = Some(RaisedOutcome(RunVars(i), e))]
    /\ handlerLog' = Log(i, [h EXCEPT !.outcome = "raised",
                                      !.rm = IF keepTempFiles THEN "" ELSE "pending"])
    /\ simOutput' = IF simOutput[i] = None
                    THEN [simOutput EXCEPT ![i] = Some(HandlerErrorEnv(e))]
                    ELSE simOutput
    /\ UNCHANGED firstData

FailWith(i, e) == FailFrom(i, handlerLog[i][1], e)

\* line 363: os.path.isdir decides between the directory that is there and a copy
IsDir(i) ==
    /\ PoolAlive
    /\ task[i] = "running"
    /\ LET reuse == use_existing_temp_files /\ isdir(See(i), handlerLog[i][1].dir)
       IN  /\ handlerLog' = Log(i, [handlerLog[i][1] EXCEPT !.reused = reuse])
           /\ task' = [task EXCEPT ![i] = IF reuse THEN "patch" ELSE "copy"]
    /\ UNCHANGED <<result, simOutput, firstData, tempDirs, slot, cwd, faults, envWrites>>
    /\ CoordUnchanged

\* an rm -rf starts on the directory of handler h: it lists the files of the
\* directory that is at the path
RmStart(h, dirs) ==
    [h EXCEPT !.rm = "run", !.todo = FilesIn(DirGet(dirs, h.dir)),
              !.fd = Some(DirGet(dirs, h.dir).id)]

\* utilities.fast_copy_dir, lines 102-106: if something is at dst by now, an rm
\* -rf is started on it
CopyExists(i) ==
    /\ PoolAlive
    /\ task[i] = "copy"
    /\ LET h == handlerLog[i][1]
       IN  IF isdir(See(i), h.dir)
           THEN /\ handlerLog' = Log(i, RmStart(h, tempDirs))
                /\ task' = [task EXCEPT ![i] = "rmcopy"]
           ELSE /\ task' = [task EXCEPT ![i] = "cp"]
                /\ UNCHANGED handlerLog
    /\ UNCHANGED <<result, simOutput, firstData, tempDirs, slot, cwd, faults, envWrites>>
    /\ CoordUnchanged

\* an rm child process may fail as long as fewer than MaxFaults have failed
MayFail(h) == h.rm = "bad" \/ faults < MaxFaults

\* the rm child processes that have failed, after a step of one that is in
\* the state rm and does what it is at (ok) or fails at it
FaultsAfter(rm, ok) == IF ~ok /\ rm = "run" THEN faults + 1 ELSE faults

\* an rm -rf at work comes to the file f: it removes it (ok) or cannot
RmFile(i, f, ok) ==
    /\ PoolAlive
    /\ handlerLog[i] # None
    /\ LET h == handlerLog[i][1]
       IN  /\ h.rm \in RmAtWork
           /\ f \in h.todo
           /\ ok \/ (MayFail(h) /\ unlink(tempDirs, h.dir, h.fd[1], f) # tempDirs)
           /\ tempDirs' = IF ok THEN unlink(tempDirs, h.dir, h.fd[1], f) ELSE tempDirs
           /\ handlerLog' = Log(i, [h EXCEPT !.todo = h.todo \ {f},
                                             !.rm = IF ok THEN h.rm ELSE "bad"])
           /\ faults' = FaultsAfter(h.rm, ok)
    /\ UNCHANGED <<task, result, simOutput, firstData, slot, cwd, envWrites>>
    /\ CoordUnchanged

\* an rm -rf that has gone through the files removes the directory (ok) or
\* cannot, and exits; subprocess.run returns without a look at the exit
\* status.  After the rm of fast_copy_dir comes its cp, after the rm of the
\* __del__ of a handler whose run returns comes the hand-over of the outcome
RmDir(i, ok) ==
    /\ PoolAlive
    /\ handlerLog[i] # None
    /\ LET h == handlerLog[i][1]
       IN  /\ h.rm \in RmAtWork
           /\ h.todo = {}
           /\ ok \/ (MayFail(h) /\ rmdir(tempDirs, h.dir) # tempDirs)
           /\ tempDirs' = IF ok THEN rmdir(tempDirs, h.dir) ELSE tempDirs
           /\ handlerLog' = Log(i, [h EXCEPT !.fd = None,
                                             !.rm = IF task[i] = "rmcopy" THEN ""
                                                    ELSE RmExit(IF ok THEN h.rm ELSE "bad",
                                                                tempDirs', h.dir)])
           /\ task' = [task EXCEPT ![i] = IF task[i] = "rmcopy" THEN "cp"
                                           ELSE IF task[i] = "rm" THEN "return"
                                           ELSE task[i]]
           /\ faults' = FaultsAfter(h.rm, ok)
    /\ UNCHANGED <<result, simOutput, firstData, slot, cwd, envWrites>>
    /\ CoordUnchanged

\* utilities.fast_copy_dir, line 109: cp starts and makes dst, if it is not
\* there; it lists the files of src, which it does not find under a path that
\* does not resolve
CpMkdir(i) ==
    /\ PoolAlive
    /\ task[i] = "cp"
    /\ LET h    == handlerLog[i][1]
           made == Resolves(slot[i]) /\ ~DirHas(tempDirs, h.dir)
       IN  /\ tempDirs' = IF made THEN cp_mkdir(tempDirs, h.dir, <<CurrentSweep, i>>)
                          ELSE tempDirs
           /\ handlerLog' = Log(i, [h EXCEPT !.made = made,
                                             !.todo = IF made THEN FilesIn(workspace_dir)
                                                      ELSE {}])
           /\ task' = [task EXCEPT ![i] = IF made /\ FilesIn(workspace_dir) # {}
                                           THEN "cpfiles" ELSE "patch"]
    /\ UNCHANGED <<result, simOutput, firstData, slot, cwd, faults, envWrites>>
    /\ CoordUnchanged

\* utilities.fast_copy_dir, line 109: the cp that has made dst comes to the
\* file f of src and makes it at dst, empty; a file it cannot make it passes
\* over, and after the last file subprocess.run returns
CpOpen(i, f) ==
    /\ PoolAlive
    /\ task[i] = "cpfiles"
    /\ LET h   == handlerLog[i][1]
           fid == FileId(CurrentSweep, i, "cp", f)
       IN  /\ f \in h.todo
           /\ tempDirs' = cp_open(tempDirs, h.dir, f, fid)
           /\ IF CanCreate(tempDirs, h.dir, f)
              THEN /\ handlerLog' = Log(i, [h EXCEPT !.fd = Some(fid)])
                   /\ task' = [task EXCEPT ![i] = "cpwrite"]
              ELSE /\ handlerLog' = Log(i, [h EXCEPT !.todo = h.todo \ {f}])
                   /\ task' = [task EXCEPT ![i] = IF h.todo = {f} THEN "patch" ELSE "cpfiles"]
    /\ UNCHANGED <<result, simOutput, firstData, slot, cwd, faults, envWrites>>
    /\ CoordUnchanged

\* utilities.fast_copy_dir, line 109: the cp copies the data of the file of
\* src into the file it has made; after the last file subprocess.run returns
CpWrite(i) ==
    /\ PoolAlive
    /\ task[i] = "cpwrite"
    /\ LET h   == handlerLog[i][1]
           fid == h.fd[1]
           f   == fid[4]
       IN  /\ tempDirs' = cp_write(tempDirs, h.dir, f, fid, workspace_dir)
           /\ handlerLog' = Log(i, [h EXCEPT !.todo = h.todo \ {f}, !.fd = None])
           /\ task' = [task EXCEPT ![i] = IF h.todo = {f} THEN "patch" ELSE "cpfiles"]
    /\ UNCHANGED <<result, simOutput, firstData, slot, cwd, faults, envWrites>>
    /\ CoordUnchanged

\* utilities.modify_netlist, lines 128-129: the netlist is read, or open raises
\* FileNotFoundError out of SimulationHandler.__init__
PatchRead(i) ==
    /\ PoolAlive
    /\ task[i] = "patch"
    /\ LET h     == handlerLog[i][1]
           lines == ReadNetlist(See(i), h.dir)
       IN  IF lines = None
           THEN FailWith(i, "FileNotFoundError")
           ELSE /\ handlerLog' = Log(i, [h EXCEPT !.lines = lines,
                                                  !.origin = DirGet(tempDirs, h.dir).origin])
                /\ task' = [task EXCEPT ![i] = "write"]
                /\ UNCHANGED <<result, simOutput, firstData>>
    /\ UNCHANGED <<tempDirs, slot, cwd, faults, envWrites>>
    /\ CoordUnchanged

\* utilities.modify_netlist, lines 131-145: the lines read are patched and
\* open(path, 'w') makes or empties the file, or raises FileNotFoundError
PatchOpen(i) ==
    /\ PoolAlive
    /\ task[i] = "write"
    /\ LET h == handlerLog[i][1]
       IN  IF ~DirHas(See(i), h.dir)
           THEN FailWith(i, "FileNotFoundError") /\ UNCHANGED tempDirs
           ELSE /\ tempDirs' = open_w(tempDirs, h.dir, FileId(CurrentSweep, i, "open", "netlist"))
                /\ handlerLog' = Log(i, [h EXCEPT !.fd = DirGet(tempDirs', h.dir).ino.netlist])
                /\ task' = [task EXCEPT ![i] = "writing"]
                /\ UNCHANGED <<result, simOutput, firstData>>
    /\ UNCHANGED <<slot, cwd, faults, envWrites>>
    /\ CoordUnchanged

\* utilities.modify_netlist, line 146: the patched lines are written to the
\* file that was opened, and the with block closes it
PatchWrite(i) ==
    /\ PoolAlive
    /\ task[i] = "writing"
    /\ LET h == handlerLog[i][1]
           modified_lines == modify_netlist(h.lines[1], h.patch)
       IN  /\ tempDirs' = write_lines(tempDirs, h.dir, h.fd[1], modified_lines)
           /\ handlerLog' = Log(i, [h EXCEPT !.netlist = Some(modified_lines), !.fd = None])
           /\ task' = [task EXCEPT ![i] = "copied"]
    /\ UNCHANGED <<result, simOutput, firstData, slot, cwd, faults, envWrites>>
    /\ CoordUnchanged

\* SimulationHandler.run, lines 382-391: os.chdir takes the pool process into
\* the directory of the run, or raises FileNotFoundError if there is none, and
\* subprocess.Popen starts the simulator in that directory or raises popen
LaunchWith(i, popen) ==
    /\ PoolAlive
    /\ task[i] = "copied"
    /\ LET h == handlerLog[i][1]
       IN  IF ~DirHas(See(i), h.dir)
           THEN FailWith(i, "FileNotFoundError") /\ UNCHANGED cwd
           ELSE /\ cwd' = [cwd EXCEPT ![slot[i]] = Some(getcwd(tempDirs, h.dir))]
                /\ IF popen # ""
                   THEN FailFrom(i, [h EXCEPT !.cwd = Some(getcwd(tempDirs, h.dir))], popen)
                   ELSE /\ task' = [task EXCEPT ![i] = "alive"]
                        /\ handlerLog' = Log(i, [h EXCEPT
                                                    !.cwd = Some(getcwd(tempDirs, h.dir))])
                        /\ UNCHANGED <<result, simOutput, firstData>>
    /\ UNCHANGED <<tempDirs, slot, faults, envWrites>>
    /\ CoordUnchanged

\* the start of a simulator that can be started
Launch(i) == LaunchWith(i, "")

\* the start of a simulator, which subprocess.Popen may fail to start
LaunchAny(i) == \E popen \in {"", "OSError"} : LaunchWith(i, popen)

\* what the environment did with a run whose simulator was to do env: in a
\* working directory that has been removed it leaves no dataset
EnvIn(dirs, dir, wd, env) ==
    IF InCwd(dirs, dir, wd) THEN env
    ELSE [kind |-> "missing", error |-> "", logStr |-> env.logStr, members |-> <<>>]

\* line 392: the simulator exits, having done env with the run, and
\* process.communicate() returns
ExitWith(i, env) ==
    /\ PoolAlive
    /\ task[i] = "alive"
    /\ task' = [task EXCEPT ![i] = "exited"]
    /\ LET h   == handlerLog[i][1]
           did == EnvIn(tempDirs, h.dir, h.cwd[1], env)
       IN  /\ tempDirs' = WriteDataset(tempDirs, h.dir, h.cwd[1],
                                       EnvFile(CurrentSweep, i, did))
           /\ simOutput' = [simOutput EXCEPT ![i] = Some(did)]
    /\ UNCHANGED <<result, firstData, handlerLog, slot, cwd, faults, envWrites>>
    /\ CoordUnchanged

\* a simulator that has run to its end and written a dataset of an indexed
\* block and a block without independent variables
GoodEnv(i) == [kind |-> "ok", error |-> "", logStr |-> <<CpuLine>>,
               members |-> Dataset(i, <<"freq", "scalar">>, 1..MaxNative)]

\* what the simulators of the runs watched step by step do
PoolEnvs(i) ==
    {GoodEnv(i), [kind |-> "missing", error |-> "", logStr |-> <<CpuLine>>, members |-> <<>>]}
    \cup {[kind |-> "unreadable", error |-> e, logStr |-> <<CpuLine>>, members |-> <<>>] :
              e \in ReadFailures}

\* the exit of a simulator that has written its dataset
Exit(i) == ExitWith(i, GoodEnv(i))

\* the exit of a simulator that may have written nothing, or nothing readable
ExitAny(i) == \E env \in PoolEnvs(i) : ExitWith(i, env)

\* everything a simulator that was started can do with run i
SimEnvs(i) == {env \in Envs(i) : env.kind # "handlerError"}

\* the exit of a simulator, whatever it has written
ExitSim(i) == \E env \in SimEnvs(i) : ExitWith(i, env)

\* lines 281-285: os.path.isfile; without a file at origDataFilePath the worker
\* function returns the read error
IsFile(i) ==
    /\ PoolAlive
    /\ task[i] = "exited"
    /\ LET h   == handlerLog[i][1]
           d   == RunVars(i)
           ret == sim_worker_fcn(d, Fw(d, simOutput[i][1].logStr), None)
       IN  IF read_file(See(i), h.dir) = None
           THEN /\ result' = [result EXCEPT ![i] = Some(ret)]
                /\ handlerLog' = Log(i, [h EXCEPT !.outcome = PathOf(None, ret)])
                /\ task' = [task EXCEPT ![i] = "del"]
           ELSE /\ task' = [task EXCEPT ![i] = "reading"]
                /\ UNCHANGED <<result, handlerLog>>
    /\ UNCHANGED <<simOutput, firstData, tempDirs, slot, cwd, faults, envWrites>>
    /\ CoordUnchanged

\* what pwdt.read_file raises on a path where no file is
NoFileErrors == {"ChildProcessError", "FileNotFoundError"}

\* the ways pwdt.read_file can end on what is at origDataFilePath: without a
\* file, one of the exceptions above; on a file that holds nothing, an
\* exception; on a file of mixed bytes, an exception or the blocks of the
\* dataset written last; on any other file, what the file makes of it
ReadChoices(at) ==
    IF at = None THEN NoFileErrors
    ELSE IF at[1].fault = "empty" THEN ReadFailures
    ELSE IF at[1].fault = "mixed" THEN ReadFailures \cup {""}
    ELSE {at[1].fault}

\* lines 289-323: pwdt.read_file reads the file that is at origDataFilePath by
\* now and the worker function returns, or an exception it does not catch
\* leaves it
ReadFile(i) ==
    /\ PoolAlive
    /\ task[i] = "reading"
    /\ LET h  == handlerLog[i][1]
           d  == RunVars(i)
           at == read_file(See(i), h.dir)
       IN  \E e \in ReadChoices(at) :
              LET file == IF at = None
                          THEN Some(DatasetFile(CurrentSweep, i, <<>>, e))
                          ELSE Some([at[1] EXCEPT !.fault = e])
                  ret  == sim_worker_fcn(d, Fw(d, simOutput[i][1].logStr), file)
              IN  IF ret.raised # ""
                  THEN FailWith(i, ret.raised)
                  ELSE /\ result' = [result EXCEPT ![i] = Some(ret)]
                       /\ handlerLog' = Log(i, [h EXCEPT !.outcome = PathOf(file, ret),
                                                         !.read = IF at = None THEN None
                                                                  ELSE file])
                       /\ task' = [task EXCEPT ![i] = "del"]
                       /\ UNCHANGED <<simOutput, firstData>>
    /\ UNCHANGED <<tempDirs, slot, cwd, faults, envWrites>>
    /\ CoordUnchanged

\* __del__, lines 368-371, of a handler: with keep_temp_files nothing is run;
\* an rm -rf on a path where nothing is exits with 0 at once
DelStart(h, dirs) ==
    IF keepTempFiles THEN [h EXCEPT !.rm = ""]
    ELSE IF ~DirHas(dirs, h.dir) THEN [h EXCEPT !.rm = "ok"]
    ELSE RmStart(h, dirs)

\* the return statement of _sim_worker_fcn: the handler goes (lines 368-371)
\* before the pool process has the outcome
Del(i) ==
    /\ PoolAlive
    /\ task[i] = "del"
    /\ handlerLog' = Log(i, DelStart(handlerLog[i][1], See(i)))
    /\ task' = [task EXCEPT ![i] = IF handlerLog'[i][1].rm \in RmAtWork THEN "rm" ELSE "return"]
    /\ UNCHANGED <<result, simOutput, firstData, tempDirs, slot, cwd, faults, envWrites>>
    /\ CoordUnchanged

\* the handler of a run that was left by an exception goes, lines 368-371,
\* after the pool process has handed the exception back
DelRaised(i) ==
    /\ PoolAlive
    /\ handlerLog[i] # None
    /\ handlerLog[i][1].rm = "pending"
    /\ handlerLog' = Log(i, DelStart(handlerLog[i][1], See(i)))
    /\ UNCHANGED <<task, result, simOutput, firstData, tempDirs, slot, cwd, faults, envWrites>>
    /\ CoordUnchanged

\* the pool process hands the outcome of run i back
Return(i) ==
    /\ PoolAlive
    /\ task[i] = "return"
    /\ task' = [task EXCEPT ![i] = "finished"]
    /\ firstData' = IF firstData = None /\ result[i][1].data # None THEN Some(i) ELSE firstData
    /\ UNCHANGED <<result, simOutput, handlerLog, tempDirs, slot, cwd, faults, envWrites>>
    /\ CoordUnchanged

(***************************************************************************)
(* SimulationManager.write_output_files, lines 227-262                     *)
(***************************************************************************)
\* pwdt.options.files.writeable_types, as the docstring of lines 234 lists them
writeable_types == {"pwdt", "ads", "ads_text", "citi", "mdif", "smatrixio", "touchstone"}

\* the dst_type arguments the model draws from
DstTypes == {"pwdt", "citi", "xlsx"}

\* lines 249-259: the default path, and what pwdt.write_file puts there
OutFile(dst, results) ==
    [dir |-> "MAS_outFileDir", apdx |-> staticVars, type |-> dst, data |-> results[1]]

\* faulty variant of write_output_files: the results are looked at first
write_output_files_resultsFirst(dst, results, files) ==
    IF results = None THEN [exc |-> "AttributeError", files |-> files]
    ELSE IF dst \notin writeable_types THEN [exc |-> "ValueError", files |-> files]
    ELSE [exc |-> "", files |-> files \cup {OutFile(dst, results)}]

\* lines 241-262: the exception raised, and the files afterwards
write_output_files(dst, results, files) ==
    IF dst \notin writeable_types THEN [exc |-> "ValueError", files |-> files]
    ELSE IF results = None THEN [exc |-> "AttributeError", files |-> files]
    ELSE [exc |-> "", files |-> files \cup {OutFile(dst, results)}]

\* a call of write_output_files on a constructed manager, outside run()
WriteOutputFiles(dst) ==
    /\ pc \in {"constructed", "done"} \/ (pc = "raised" /\ dirsCreated)
    /\ LET outcome == write_output_files(dst, simResults, outFiles)
       IN  /\ outFiles' = outcome.files
           /\ writeCall' = Some([dst |-> dst, exc |-> outcome.exc, before |-> outFiles,
                                 hadResults |-> simResults # None])
    /\ UNCHANGED <<pc, exc, excSite, vars, var_names, workspace_dir, ads_startup_cmd,
                   newSweepingVars, dirsCreated, writeLogs, maxPoolSize, task, result,
                   finishedWorkers, isFirstValidWorker, concatBlocks, concatBlocksMetadata,
                   simOutput, logData, summary, logFile, simResults, firstData,
                   handler_vars, call_vars>>

\* the constructor and run(), the pool processes step by step, whatever the
\* simulators write and whatever the rm of the handlers does
Next ==
    \/ Construct
    \/ StartRun
    \/ \E i \in DOMAIN task : \E w \in 1..maxPoolSize : TakeTask(w, i)
    \/ \E i \in DOMAIN task : IsDir(i)
    \/ \E i \in DOMAIN task : CopyExists(i)
    \/ \E i \in DOMAIN task : \E f \in RunFiles, ok \in BOOLEAN : RmFile(i, f, ok)
    \/ \E i \in DOMAIN task : \E ok \in BOOLEAN : RmDir(i, ok)
    \/ \E i \in DOMAIN task : CpMkdir(i)
    \/ \E i \in DOMAIN task : \E f \in RunFiles : CpOpen(i, f)
    \/ \E i \in DOMAIN task : CpWrite(i)
    \/ \E i \in DOMAIN task : PatchRead(i)
    \/ \E i \in DOMAIN task : PatchOpen(i)
    \/ \E i \in DOMAIN task : PatchWrite(i)
    \/ \E i \in DOMAIN task : LaunchAny(i)
    \/ \E i \in DOMAIN task : ExitSim(i)
    \/ \E i \in DOMAIN task : IsFile(i)
    \/ \E i \in DOMAIN task : ReadFile(i)
    \/ \E i \in DOMAIN task : Del(i)
    \/ \E i \in DOMAIN task : DelRaised(i)
    \/ \E i \in DOMAIN task : Return(i)
    \/ Consume
    \/ AfterPool

Spec == Init /\ [][Next]_vars_all

\* the step of AfterPool, told by its guard and by what it does to pc: in the
\* states of its guard no other action changes pc
AfterPoolStep ==
    /\ pc = "pool"
    /\ \A i \in DOMAIN task : task[i] = "consumed"
    /\ pc' \in {"done", "raised"}

\* a step of a pool process in _sim_worker_fcn, told by what it does to task:
\* the run it has in hand gets on
WorkerStep ==
    /\ PoolAlive
    /\ \E i \in DOMAIN task : \E t \in (InProcess \cup {"finished"}) \ {task[i]} :
          /\ task[i] \in InProcess
          /\ task' = [task EXCEPT ![i] = t]

NextNorm == Construct

\* the workspace directories the constructor is called on: with and without
\* the netlist, with a netlist whose first line holds no hierarchy, no quoted
\* text or nothing at all, and under a name that does not end in "_wrk"
Workspaces ==
    {WorkspaceDir(TRUE, FALSE, FALSE), WorkspaceDir(FALSE, FALSE, FALSE)}
    \cup {[name |-> name, relative |-> FALSE, netlist |-> Some(lines), dataset |-> None] :
              name \in {WrkName, <<"w", "s">>},
              lines \in {TemplateNetlist, Tail(TemplateNetlist), <<>>,
                         <<<<";", " ", "\"", "c", "\"", "\n">>>> \o Tail(TemplateNetlist)}}

\* the constructor's arguments for the sweeps written to a file: one run, a
\* number list without a name, or a template workspace the constructor refuses
InitWrite ==
    /\ \E names \in {[kind |-> "None", v |-> <<>>], [kind |-> "str", v |-> <<AxisNames[1]>>]},
          workspace \in Workspaces :
          InitWith([kind |-> "list", names |-> <<>>, items |-> <<NumItem(IntV(1))>>],
                   names, workspace, "None")
    /\ writeLogs \in BOOLEAN
    /\ DefaultHandler
    /\ NoCall

NextWrite ==
    \/ Next
    \/ \E dst \in DstTypes : WriteOutputFiles(dst)

SpecWrite == InitWrite /\ [][NextWrite]_vars_all

\* the constructor's arguments with every kind of ads_startup_cmd
InitCmd ==
    /\ \E names \in {[kind |-> "None", v |-> <<>>], [kind |-> "str", v |-> <<AxisNames[1]>>]},
          cmd \in StartupCmdArgs :
          InitWith([kind |-> "list", names |-> <<>>, items |-> <<NumItem(IntV(1))>>],
                   names, WorkspaceDir(TRUE, FALSE, FALSE), cmd)
    /\ writeLogs \in BOOLEAN
    /\ DefaultHandler
    /\ NoCall

SpecCmd == InitCmd /\ [][NextWrite]_vars_all

\* set_static_vars, lines 216-225: the assignment replaces the earlier one
SetStaticVars(static) ==
    /\ pc \in {"constructed", "done"}
    /\ static # staticVars
    /\ staticVars' = static
    /\ UNCHANGED <<manager_vars, keepTempFiles, tempDirs, slot, cwd, faults, handlerLog,
                   envWrites,
                   write_vars, call_vars>>

\* the values of the sweeps the pool is watched on
PoolValues == {FloatV(1, 5), FloatV(2, 5)}

\* single-axis sweeps of pairwise distinct tuples
PoolSweeps == {s \in SeqsUpTo(PoolValues, MaxRuns) : \A i, j \in DOMAIN s : i # j => s[i] # s[j]}

\* the sweeps of PoolSweeps that begin with 1.5
ReturnSweeps == {s \in PoolSweeps : s[1] = FloatV(1, 5)}

StaticChoices == {<<>>, <<<<"bias", IntV(9)>>>>, <<<<"gain", IntV(9)>>>>}

\* a sweep, and possibly the directory of the first run left over from an
\* earlier sweep, with or without its netlist
InitPool ==
    /\ \E s \in ReturnSweeps :
          /\ InitArgs([kind |-> "list", names |-> <<>>,
                       items |-> [i \in DOMAIN s |-> TupleItem(<<s[i]>>)]],
                      [kind |-> "list", v |-> NamesOf(1)], WorkspaceDir(TRUE, FALSE, FALSE), "None")
          /\ tempDirs \in {{}} \cup {{<<TempWorkspaceDir(VarsDict(NamesOf(1), <<s[1]>>)), left>>} :
                                       left \in {Leftover, LeftoverBare}}
    /\ maxPoolSize \in 1..MaxWorkers
    /\ writeLogs = TRUE
    /\ staticVars = <<>>
    /\ keepTempFiles \in BOOLEAN
    /\ NoCall

\* the constructor and run() with the pool processes step by step, every
\* simulator started and writing its dataset
NextRun ==
    \/ Construct
    \/ StartRun
    \/ \E i \in DOMAIN task : \E w \in 1..maxPoolSize : TakeTask(w, i)
    \/ \E i \in DOMAIN task : IsDir(i)
    \/ \E i \in DOMAIN task : CopyExists(i)
    \/ \E i \in DOMAIN task : \E f \in RunFiles, ok \in BOOLEAN : RmFile(i, f, ok)
    \/ \E i \in DOMAIN task : \E ok \in BOOLEAN : RmDir(i, ok)
    \/ \E i \in DOMAIN task : CpMkdir(i)
    \/ \E i \in DOMAIN task : \E f \in RunFiles : CpOpen(i, f)
    \/ \E i \in DOMAIN task : CpWrite(i)
    \/ \E i \in DOMAIN task : PatchRead(i)
    \/ \E i \in DOMAIN task : PatchOpen(i)
    \/ \E i \in DOMAIN task : PatchWrite(i)
    \/ \E i \in DOMAIN task : Launch(i)
    \/ \E i \in DOMAIN task : Exit(i)
    \/ \E i \in DOMAIN task : IsFile(i)
    \/ \E i \in DOMAIN task : ReadFile(i)
    \/ \E i \in DOMAIN task : Del(i)
    \/ \E i \in DOMAIN task : DelRaised(i)
    \/ \E i \in DOMAIN task : Return(i)
    \/ Consume
    \/ AfterPool

\* set_static_vars, the constructor and run()
NextPool ==
    \/ \E static \in StaticChoices : SetStaticVars(static)
    \/ NextRun

SpecPool == InitPool /\ [][NextPool]_vars_all

\* the sweep over 1.5 and '1p5', two values with the same run name, from a
\* template workspace with or without a dataset of its own
InitShare ==
    /\ \E dataset \in BOOLEAN :
          InitArgs([kind |-> "list", names |-> <<>>,
                    items |-> <<TupleItem(<<FloatV(1, 5)>>),
                                TupleItem(<<StrV(<<"1", "p", "5">>)>>)>>],
                   [kind |-> "list", v |-> NamesOf(1)],
                   WorkspaceDir(TRUE, dataset, FALSE), "None")
    /\ maxPoolSize \in 1..MaxWorkers
    /\ writeLogs = TRUE
    /\ staticVars = <<>>
    /\ keepTempFiles \in BOOLEAN
    /\ tempDirs = {}
    /\ NoCall

SpecShare == InitShare /\ [][NextRun]_vars_all

\* a dataset of one block with two native independent variables, or no dataset
\* at all
GridEnvs(i) ==
    {[kind |-> "missing", error |-> "", logStr |-> <<CpuLine>>, members |-> <<>>],
     [kind |-> "ok", error |-> "", logStr |-> <<CpuLine>>,
      members |-> Dataset(i, <<"grid">>, 1..MaxNative)]}

\* the exit of a simulator that sweeps two native independent variables
ExitGrid(i) == \E env \in GridEnvs(i) : ExitWith(i, env)

\* two-axis sweeps of two runs, the second of which may repeat the first
InitGrid ==
    /\ \E a \in {TupleSweep(s) : s \in {p \in Patterns : Len(p) = MaxRuns}} :
          InitArgs(a[1], a[2], WorkspaceDir(TRUE, FALSE, FALSE), "None")
    /\ maxPoolSize \in 1..MaxWorkers
    /\ writeLogs = FALSE
    /\ DefaultHandler
    /\ NoCall

NextGrid ==
    \/ Construct
    \/ StartRun
    \/ \E i \in DOMAIN task : \E w \in 1..maxPoolSize : TakeTask(w, i)
    \/ \E i \in DOMAIN task : IsDir(i)
    \/ \E i \in DOMAIN task : CopyExists(i)
    \/ \E i \in DOMAIN task : \E f \in RunFiles, ok \in BOOLEAN : RmFile(i, f, ok)
    \/ \E i \in DOMAIN task : \E ok \in BOOLEAN : RmDir(i, ok)
    \/ \E i \in DOMAIN task : CpMkdir(i)
    \/ \E i \in DOMAIN task : \E f \in RunFiles : CpOpen(i, f)
    \/ \E i \in DOMAIN task : CpWrite(i)
    \/ \E i \in DOMAIN task : PatchRead(i)
    \/ \E i \in DOMAIN task : PatchOpen(i)
    \/ \E i \in DOMAIN task : PatchWrite(i)
    \/ \E i \in DOMAIN task : Launch(i)
    \/ \E i \in DOMAIN task : ExitGrid(i)
    \/ \E i \in DOMAIN task : IsFile(i)
    \/ \E i \in DOMAIN task : ReadFile(i)
    \/ \E i \in DOMAIN task : Del(i)
    \/ \E i \in DOMAIN task : DelRaised(i)
    \/ \E i \in DOMAIN task : Return(i)
    \/ Consume
    \/ AfterPool

SpecGrid == InitGrid /\ [][NextGrid]_vars_all

\* where a dataset no simulator of the sweep has written can come from: the
\* directory of the first run left over from an earlier sweep, or the template
\* workspace
Stale == {"", "leftover", "template"}

\* a sweep that begins with 1.5, and possibly a stale dataset
InitReturn ==
    /\ \E s \in ReturnSweeps, stale \in Stale :
          /\ InitArgs([kind |-> "list", names |-> <<>>,
                       items |-> [i \in DOMAIN s |-> TupleItem(<<s[i]>>)]],
                      [kind |-> "list", v |-> NamesOf(1)],
                      WorkspaceDir(TRUE, stale = "template", FALSE), "None")
          /\ tempDirs = IF stale = "leftover"
                        THEN {<<TempWorkspaceDir(VarsDict(NamesOf(1), <<s[1]>>)), Leftover>>}
                        ELSE {}
    /\ maxPoolSize \in 1..MaxWorkers
    /\ writeLogs = TRUE
    /\ staticVars = <<>>
    /\ keepTempFiles \in BOOLEAN
    /\ NoCall

\* run() with the pool processes step by step, whatever the simulators and
\* the rm of the handlers do
NextReturn ==
    \/ Construct
    \/ StartRun
    \/ \E i \in DOMAIN task : \E w \in 1..maxPoolSize : TakeTask(w, i)
    \/ \E i \in DOMAIN task : IsDir(i)
    \/ \E i \in DOMAIN task : CopyExists(i)
    \/ \E i \in DOMAIN task : \E f \in RunFiles, ok \in BOOLEAN : RmFile(i, f, ok)
    \/ \E i \in DOMAIN task : \E ok \in BOOLEAN : RmDir(i, ok)
    \/ \E i \in DOMAIN task : CpMkdir(i)
    \/ \E i \in DOMAIN task : \E f \in RunFiles : CpOpen(i, f)
    \/ \E i \in DOMAIN task : CpWrite(i)
    \/ \E i \in DOMAIN task : PatchRead(i)
    \/ \E i \in DOMAIN task : PatchOpen(i)
    \/ \E i \in DOMAIN task : PatchWrite(i)
    \/ \E i \in DOMAIN task : LaunchAny(i)
    \/ \E i \in DOMAIN task : ExitAny(i)
    \/ \E i \in DOMAIN task : IsFile(i)
    \/ \E i \in DOMAIN task : ReadFile(i)
    \/ \E i \in DOMAIN task : Del(i)
    \/ \E i \in DOMAIN task : DelRaised(i)
    \/ \E i \in DOMAIN task : Return(i)
    \/ Consume
    \/ AfterPool

SpecReturn == InitReturn /\ [][NextReturn]_vars_all

SpecNorm == InitNorm /\ [][NextNorm]_vars_all

(***************************************************************************)
(* run() called a second time on the same manager                          *)
(***************************************************************************)
\* what a call of run() leaves behind
RunLeftovers == [simOutput |-> simOutput, simResults |-> simResults, logData |-> logData,
                 summary |-> summary, logFile |-> logFile,
                 staticVars |-> staticVars, tempDirs |-> tempDirs]

\* run() once more after it has returned, lines 145-157: new lists, a new pool
\* and the tasks of the same sweep; the directories the earlier call has left
\* are still there
RunAgain ==
    /\ pc = "done"
    /\ prevRun = None
    /\ prevRun' = Some(RunLeftovers)
    /\ pc' = "pool"
    /\ task' = [i \in 1..NRuns |-> "queued"]
    /\ result' = [i \in 1..NRuns |-> None]
    /\ finishedWorkers' = NewList(finishedWorkers)
    /\ concatBlocks' = NewList(concatBlocks)
    /\ concatBlocksMetadata' = NewList(concatBlocksMetadata)
    /\ isFirstValidWorker' = TRUE
    /\ simOutput' = [i \in 1..NRuns |-> None]
    /\ firstData' = None
    /\ slot' = [i \in 1..NRuns |-> 0]
    /\ cwd' = [w \in 1..maxPoolSize |-> None]
    /\ handlerLog' = [i \in 1..NRuns |-> None]
    /\ UNCHANGED <<exc, excSite, vars, var_names, workspace_dir, ads_startup_cmd,
                   newSweepingVars, dirsCreated, writeLogs, maxPoolSize, logData, summary,
                   logFile, simResults>>
    /\ UNCHANGED <<staticVars, keepTempFiles, tempDirs, faults, envWrites, write_vars, fnArgs,
                   fnOut>>

\* what the simulators of a sweep that is run twice do: as in PoolEnvs, or they
\* write a dataset of one block without independent variables
TwiceEnvs(i) ==
    PoolEnvs(i) \cup {[kind |-> "ok", error |-> "", logStr |-> <<CpuLine>>,
                       members |-> Dataset(i, <<"scalar">>, 1..MaxNative)]}

\* in the second call the simulator does with every run what it did in the first
ExitAsBefore(i) ==
    \E env \in IF prevRun = None THEN TwiceEnvs(i) ELSE {prevRun[1].simOutput[i][1]} :
        ExitWith(i, env)

\* a sweep of two runs
InitTwice ==
    /\ InitWith([kind |-> "list", names |-> <<>>,
                 items |-> <<NumItem(IntV(1)), NumItem(IntV(2))>>],
                [kind |-> "str", v |-> <<AxisNames[1]>>], WorkspaceDir(TRUE, FALSE, FALSE), "None")
    /\ writeLogs \in BOOLEAN
    /\ DefaultHandler
    /\ NoCall

NextTwice ==
    \/ Construct
    \/ StartRun
    \/ RunAgain
    \/ \E i \in DOMAIN task : \E w \in 1..maxPoolSize : TakeTask(w, i)
    \/ \E i \in DOMAIN task : IsDir(i)
    \/ \E i \in DOMAIN task : CopyExists(i)
    \/ \E i \in DOMAIN task : \E f \in RunFiles, ok \in BOOLEAN : RmFile(i, f, ok)
    \/ \E i \in DOMAIN task : \E ok \in BOOLEAN : RmDir(i, ok)
    \/ \E i \in DOMAIN task : CpMkdir(i)
    \/ \E i \in DOMAIN task : \E f \in RunFiles : CpOpen(i, f)
    \/ \E i \in DOMAIN task : CpWrite(i)
    \/ \E i \in DOMAIN task : PatchRead(i)
    \/ \E i \in DOMAIN task : PatchOpen(i)
    \/ \E i \in DOMAIN task : PatchWrite(i)
    \/ \E i \in DOMAIN task : Launch(i)
    \/ \E i \in DOMAIN task : ExitAsBefore(i)
    \/ \E i \in DOMAIN task : IsFile(i)
    \/ \E i \in DOMAIN task : ReadFile(i)
    \/ \E i \in DOMAIN task : Del(i)
    \/ \E i \in DOMAIN task : DelRaised(i)
    \/ \E i \in DOMAIN task : Return(i)
    \/ Consume
    \/ AfterPool

SpecTwice == InitTwice /\ [][NextTwice]_vars_all

\* a sweep of two runs in which every child process exits in the end (rm, cp
\* and the simulator process.communicate() waits for, line 392), every pool
\* process gets on, the pool hands every task to a process, and the
\* coordinator goes on whenever it can
SpecLive ==
    /\ InitTwice /\ [][NextReturn]_vars_all
    /\ WF_vars_all(Construct \/ StartRun)
    /\ WF_vars_all(\E i \in DOMAIN task : \E w \in 1..maxPoolSize : TakeTask(w, i))
    /\ WF_task(WorkerStep)
    /\ WF_vars_all(\E i \in DOMAIN task : \E f \in RunFiles : RmFile(i, f, TRUE))
    /\ WF_vars_all(\E i \in DOMAIN task : RmDir(i, TRUE) \/ DelRaised(i))
    /\ WF_vars_all(Consume)
    /\ WF_pc(AfterPoolStep)

(***************************************************************************)
(* set_static_vars and run() called in turn on the same manager            *)
(***************************************************************************)
\* a sweep on a manager that has no static variables and no directories yet
InitStatic ==
    /\ \E s \in ReturnSweeps :
          InitArgs([kind |-> "list", names |-> <<>>,
                    items |-> [i \in DOMAIN s |-> TupleItem(<<s[i]>>)]],
                   [kind |-> "list", v |-> NamesOf(1)], WorkspaceDir(TRUE, FALSE, FALSE), "None")
    /\ tempDirs = {}
    /\ maxPoolSize \in 1..MaxWorkers
    /\ writeLogs = TRUE
    /\ staticVars = <<>>
    /\ keepTempFiles \in BOOLEAN
    /\ NoCall

NextStatic ==
    \/ RunAgain
    \/ NextPool

SpecStatic == InitStatic /\ [][NextStatic]_vars_all

\* a sweep of two runs over an axis that has the name of the native
\* independent variable "freq"
InitClash ==
    /\ InitWith([kind |-> "list", names |-> <<>>,
                 items |-> <<NumItem(IntV(1)), NumItem(IntV(2))>>],
                [kind |-> "str", v |-> <<"freq">>], WorkspaceDir(TRUE, FALSE, FALSE), "None")
    /\ writeLogs \in BOOLEAN
    /\ DefaultHandler
    /\ NoCall

SpecClash == InitClash /\ [][Next]_vars_all

(***************************************************************************)
(* The functions of utilities.py and logging.py, called on their own       *)
(***************************************************************************)
\* pieces a netlist file is written from: lines that set bias or gain, with and
\* without a comment or the final newline, and lines that only look like them
NetlistLines ==
    {NetlistLine(FALSE, "bias", <<"0">>),
     NetlistLine(TRUE, "gain", <<"0">>),
     Chars("bias") \o <<"=", "0", " ", ";", "c", "\n">>,
     Chars("bias") \o <<"=", "0">>,
     Chars("bias") \o <<"x", "=", "0", "\n">>,
     <<" ">> \o NetlistLine(FALSE, "bias", <<"0">>),
     <<";", " ">> \o NetlistLine(TRUE, "gain", <<"0">>),
     <<"R", "1", " ", "R", "=">> \o Chars("bias") \o <<"\n">>}

\* the vars_dict arguments of modify_netlist
PatchDicts ==
    {<<>>,
     <<<<"bias", FloatV(1, 5)>>>>,
     <<<<"gain", IntV(2)>>>>,
     <<<<"bias", FloatV(1, 5)>>, <<"gain", IntV(2)>>>>,
     <<<<"vdd", IntV(3)>>>>}

\* the calls of modify_netlist: file is the text of the file at path, the pieces
\* one after the other, so that a piece without newline runs into the next
ModifyNetlistCalls ==
    {[fn |-> "modify_netlist", file |-> Flatten(f), vars_dict |-> d] :
        f \in SeqsUpTo(NetlistLines, MaxLines), d \in PatchDicts}

\* utilities.modify_netlist on the file of fnArgs, lines 128-146; fnOut is the
\* text of the file afterwards
CallModifyNetlist ==
    /\ fnArgs # None
    /\ fnArgs[1].fn = "modify_netlist"
    /\ fnOut = None
    /\ fnOut' = Some(writelines(modify_netlist(readlines(fnArgs[1].file),
                                               fnArgs[1].vars_dict)))
    /\ UNCHANGED <<manager_vars, handler_vars, write_vars, prevRun, fnArgs>>

(***************************************************************************)
(* utilities.robust_byte_decode, lines 25-46. A byte is an int of 0..255, a *)
(* str the sequence of its code points.                                    *)
(***************************************************************************)
\* the bytes the function is called on: "A", a continuation byte, the lead
\* bytes of a 2-byte and of a 3-byte sequence, and a byte UTF-8 never has
ByteValues == {65, 130, 195, 226, 255}

IsContinuation(b) == 128 <= b /\ b <= 191

\* the length of the UTF-8 sequence a lead byte announces, 0 for a byte that
\* starts none (the 4-byte sequences are not among ByteValues)
SequenceLength(b) ==
    IF b < 128 THEN 1
    ELSE IF 194 <= b /\ b <= 223 THEN 2
    ELSE IF 224 <= b /\ b <= 239 THEN 3
    ELSE 0

\* bytes.decode("utf-8") at position p: the code point and its length, or the
\* number of bytes UnicodeDecodeError reports as e.start:e.end. A sequence cut
\* by the end of the data is reported up to the end, one broken by a byte that
\* is no continuation byte up to that byte.
utf8_step(bs, p) ==
    LET n == SequenceLength(bs[p])
        good == CHOOSE k \in 0..2 :
                    /\ \A h \in 1..k : p + h <= Len(bs) /\ IsContinuation(bs[p + h])
                    /\ ~(p + k + 1 <= Len(bs) /\ IsContinuation(bs[p + k + 1]) /\ k < 2)
    IN  IF n = 0 THEN [err |-> TRUE, len |-> 1, cp |-> 0]
        ELSE IF n = 1 THEN [err |-> FALSE, len |-> 1, cp |-> bs[p]]
        ELSE IF good >= n - 1
        THEN [err |-> FALSE, len |-> n,
              cp |-> IF n = 2 THEN (bs[p] - 192) * 64 + (bs[p + 1] - 128)
                     ELSE (bs[p] - 224) * 4096 + (bs[p + 1] - 128) * 64 + (bs[p + 2] - 128)]
        ELSE [err |-> TRUE, len |-> 1 + good, cp |-> 0]

\* bytes.decode("utf-8") from position p on: the text, or the first error as
\* the 0-based e.start and e.end
RECURSIVE utf8_decode(_, _)
utf8_decode(bs, p) ==
    IF p > Len(bs) THEN [err |-> FALSE, text |-> <<>>, start |-> 0, end |-> 0]
    ELSE LET st == utf8_step(bs, p)
         IN  IF st.err
             THEN [err |-> TRUE, text |-> <<>>, start |-> p - 1, end |-> p - 1 + st.len]
             ELSE LET rest == utf8_decode(bs, p + st.len)
                  IN  IF rest.err THEN rest
                      ELSE [rest EXCEPT !.text = <<st.cp>> \o @]

\* the code point of a hexadecimal digit, lower case
HexDigit(d) == IF d < 10 THEN 48 + d ELSE 87 + d

\* bytes.hex()
RECURSIVE hex(_)
hex(bs) ==
    IF bs = <<>> THEN <<>>
    ELSE <<HexDigit(Head(bs) \div 16), HexDigit(Head(bs) % 16)>> \o hex(Tail(bs))

\* line 45: r'\x' + faulty_byte.hex(), faulty_byte the bytes e.start:e.end
Replacement(faulty_byte) == <<92, 120>> \o hex(faulty_byte)

\* robust_byte_decode, lines 41-46, at recursion depth `depth`: one level of
\* recursion for every UnicodeDecodeError
RECURSIVE robust_byte_decode(_, _)
robust_byte_decode(byte_str, depth) ==
    LET r == utf8_decode(byte_str, 1)
    IN  IF ~r.err THEN [raised |-> "", text |-> r.text]
        ELSE IF depth + 1 >= RecursionLimit THEN [raised |-> "RecursionError", text |-> <<>>]
        ELSE LET rest == robust_byte_decode(SubSeq(byte_str, r.end + 1, Len(byte_str)),
                                            depth + 1)
             IN  IF rest.raised # "" THEN rest
                 ELSE [rest EXCEPT !.text =
                          utf8_decode(SubSeq(byte_str, 1, r.start), 1).text
                              \o Replacement(SubSeq(byte_str, r.start + 1, r.end)) \o @]

DecodeCalls ==
    {[fn |-> "robust_byte_decode", byte_str |-> bs] :
        bs \in {<<>>} \cup SeqsUpTo(ByteValues, MaxBytes)}

\* robust_byte_decode on the bytes of fnArgs, called from SimulationHandler.run
CallRobustByteDecode ==
    /\ fnArgs # None
    /\ fnArgs[1].fn = "robust_byte_decode"
    /\ fnOut = None
    /\ fnOut' = Some(robust_byte_decode(fnArgs[1].byte_str, 1))
    /\ UNCHANGED <<manager_vars, handler_vars, write_vars, prevRun, fnArgs>>

(***************************************************************************)
(* LogFileHandler.read_finished_workers and print_summary on the logs of   *)
(* two runs                                                                *)
(***************************************************************************)
\* the warnings and errors of a log: two warnings under the same header, a
\* warning under another header, and an error
LogMessages ==
    {[field |-> "Warning detected", header |-> <<"H", "B">>,
      body |-> <<" ", "m", "i", "x", "\n", "\n">>],
     [field |-> "Warning detected", header |-> <<"H", "B">>,
      body |-> <<" ", "n", "o", "d", "e", "\n", "\n">>],
     [field |-> "Warning detected", header |-> <<"D", "C">>,
      body |-> <<" ", "m", "i", "x", "\n", "\n">>],
     [field |-> "Error detected", header |-> <<"H", "B">>,
      body |-> <<" ", "m", "i", "x", "\n", "\n">>]}

\* the log of a run that ran to its end
MessageLogs == {<<CpuLine>> \o ms : ms \in {<<>>} \cup SeqsUpTo(LogMessages, MaxMessages)}

\* the finished-worker record of the run bias=i with the log l
FwWithLog(i, l) == Fw(VarsDict(<<AxisNames[1]>>, <<IntV(i)>>), l)

PrintSummaryCalls ==
    {[fn |-> "print_summary", finishedWorkers |-> <<FwWithLog(1, l1), FwWithLog(2, l2)>>] :
        l1 \in MessageLogs, l2 \in MessageLogs}

\* read_finished_workers and print_summary, as run() calls them in lines 178-179:
\* the data of the handler are replaced (logging.py line 96); fnOut is the summary
CallPrintSummary ==
    /\ fnArgs # None
    /\ fnArgs[1].fn = "print_summary"
    /\ fnOut = None
    /\ logData' = process_worker_logs(<<>>, fnArgs[1].finishedWorkers)
    /\ fnOut' = Some(Summary(logData'))
    /\ UNCHANGED <<pc, exc, excSite, vars, var_names, workspace_dir, ads_startup_cmd,
                   newSweepingVars, dirsCreated, writeLogs, maxPoolSize, task, result,
                   finishedWorkers, isFirstValidWorker, concatBlocks, concatBlocksMetadata,
                   simOutput, summary, logFile, simResults, firstData>>
    /\ UNCHANGED <<handler_vars, write_vars, prevRun, fnArgs>>

\* the log bundles read_logfile is called on: what write_logfile wrote after a
\* sweep of two runs, a run with or without a warning in its log and with or
\* without the read error of an unreadable dataset
ReadLogfileCalls ==
    {[fn |-> "read_logfile",
      file |-> process_worker_logs(<<>>,
                   <<[FwWithLog(1, l1) EXCEPT !.readError = e1],
                     [FwWithLog(2, <<CpuLine>>) EXCEPT !.readError = e2]>>)] :
        l1 \in {l \in MessageLogs : Len(l) <= 2},
        e1 \in {None, Some(UnreadableReadError("StopIteration"))},
        e2 \in {None, Some(UnreadableReadError("ChildProcessError"))}}

\* LogFileHandler.read_logfile on the log bundle of fnArgs: the data of the
\* handler are replaced; fnOut is the summary print_summary gives afterwards
CallReadLogfile ==
    /\ fnArgs # None
    /\ fnArgs[1].fn = "read_logfile"
    /\ fnOut = None
    /\ logData' = read_logfile(fnArgs[1].file)
    /\ fnOut' = Some(Summary(logData'))
    /\ UNCHANGED <<pc, exc, excSite, vars, var_names, workspace_dir, ads_startup_cmd,
                   newSweepingVars, dirsCreated, writeLogs, maxPoolSize, task, result,
                   finishedWorkers, isFirstValidWorker, concatBlocks, concatBlocksMetadata,
                   simOutput, summary, logFile, simResults, firstData>>
    /\ UNCHANGED <<handler_vars, write_vars, prevRun, fnArgs>>

\* the calls of SimulationHandler(vars, dirs, ...): a template workspace with
\* or without the netlist and a dataset, and the directory of the run not
\* there, left by an earlier sweep, or there without a netlist
HandlerCalls ==
    {[fn |-> "SimulationHandler", vars |-> VarsDict(<<AxisNames[1]>>, <<FloatV(1, 5)>>),
      static_vars |-> static, netlist |-> netlist, dataset |-> dataset,
      use_existing_temp_files |-> reuse, dirs |-> dirs] :
        static \in StaticChoices, netlist \in BOOLEAN, dataset \in BOOLEAN,
        reuse \in BOOLEAN,
        dirs \in {{}} \cup
                 {{<<TempWorkspaceDir(VarsDict(<<AxisNames[1]>>, <<FloatV(1, 5)>>)), content>>} :
                      content \in {Leftover, LeftoverBare}}}

\* SimulationHandler.__init__, lines 344-366, called by the process 0 on the
\* directories of fnArgs; fnOut is the exception raised and the handler
CallHandlerInit ==
    /\ fnArgs # None
    /\ fnArgs[1].fn = "SimulationHandler"
    /\ fnOut = None
    /\ LET init == HandlerInit(fnArgs[1].vars, fnArgs[1].static_vars, fnArgs[1].dirs,
                               TemplateWorkspace(fnArgs[1].netlist, fnArgs[1].dataset),
                               fnArgs[1].use_existing_temp_files, <<1, 1>>)
       IN  /\ tempDirs' = init.dirs
           /\ fnOut' = Some([exc |-> init.exc, handler |-> init.handler])
    /\ envWrites' = update_environment(envWrites, 0)
    /\ UNCHANGED <<manager_vars, staticVars, keepTempFiles, slot, cwd, faults, handlerLog,
                   write_vars,
                   prevRun, fnArgs>>

FunctionCalls ==
    ModifyNetlistCalls \cup DecodeCalls \cup PrintSummaryCalls \cup ReadLogfileCalls
    \cup HandlerCalls

InitCall ==
    /\ InitWith([kind |-> "list", names |-> <<>>, items |-> <<NumItem(IntV(1))>>],
                [kind |-> "str", v |-> <<AxisNames[1]>>], WorkspaceDir(TRUE, FALSE, FALSE), "None")
    /\ writeLogs = TRUE
    /\ DefaultHandler
    /\ fnArgs \in {Some(a) : a \in FunctionCalls}
    /\ fnOut = None

NextCall ==
    \/ CallModifyNetlist
    \/ CallRobustByteDecode
    \/ CallPrintSummary
    \/ CallReadLogfile
    \/ CallHandlerInit

SpecCall == InitCall /\ [][NextCall]_vars_all

(***************************************************************************)
(* Properties                                                              *)
(***************************************************************************)
Reverse(s) == [j \in DOMAIN s |-> s[Len(s) + 1 - j]]

\* the axis names as the caller declared them
DeclaredNames == IF vars.kind = "MultiIndex" THEN vars.names ELSE var_names.v

\* the runs whose handler has been constructed
Prepared == {i \in DOMAIN handlerLog : handlerLog[i] # None /\ handlerLog[i][1].netlist # None}
Handler(i) == handlerLog[i][1]
\* the netlist as the handler of run i has written it
Netlist(i) == Handler(i).netlist[1]

Ran(i) == simOutput[i] # None
Out(i) == simOutput[i][1]
HasData(i) == Ran(i) /\ Out(i).kind = "ok"
AllRan == DOMAIN simOutput # {} /\ \A i \in DOMAIN simOutput : Ran(i)
RunLeft == pc \in {"done", "raised"} /\ AllRan

\* the first run, in the order of consumption, that has result blocks
TemplateExists == \E i \in DOMAIN simOutput : HasData(i)
Template == CHOOSE i \in DOMAIN simOutput :
                HasData(i) /\ \A j \in 1..(i - 1) : ~HasData(j)

IsIndexed(rawBlock) == rawBlock.ivarnames # <<>>

\* the runs that wrote an indexed block at position b
Producers(b) == {i \in DOMAIN simOutput :
                    /\ HasData(i)
                    /\ b \in DOMAIN Out(i).members
                    /\ IsIndexed(Out(i).members[b])}

\* the native keys observed at position b in any run
Observed(b) == UNION {{Out(i).members[b].data[r].key : r \in DOMAIN Out(i).members[b].data} :
                         i \in Producers(b)}

\* the worker function of run i has returned result blocks
GotBlocks(i) == handlerLog[i] # None /\ Handler(i).outcome = "ok"

\* the blocks of the dataset the worker function of run i has read
ReadBlocks(i) == Handler(i).read[1].members

\* the first outcome, in the order of consumption, that has result blocks
OutcomeTemplate == CHOOSE i \in DOMAIN handlerLog :
                       GotBlocks(i) /\ \A j \in 1..(i - 1) : ~GotBlocks(j)

\* the runs that have returned an indexed block at position b
Readers(b) == {i \in DOMAIN handlerLog :
                  /\ GotBlocks(i)
                  /\ b \in DOMAIN ReadBlocks(i)
                  /\ IsIndexed(ReadBlocks(i)[b])}

\* the rows the runs have returned at position b, under the keys of the
\* unified block
RowsRead(b) == UNION {{<<Sweep.tuples[i] \o ReadBlocks(i)[b].data[r].key,
                         ReadBlocks(i)[b].data[r].val>> :
                           r \in DOMAIN ReadBlocks(i)[b].data} : i \in Readers(b)}

\* the values observed in any run for the j-th native independent variable of
\* position b
NativeValues(b, j) == UNION {{ReadBlocks(i)[b].data[r].key[j] :
                                r \in DOMAIN ReadBlocks(i)[b].data} : i \in Readers(b)}

Unified == simResults[1]

\* the native keys with, for every native independent variable of position b,
\* one of the values observed for it
NativeProduct(b) ==
    LET n == Len(Unified[b].names) - Len(Sweep.names)
    IN  {k \in [1..n -> UNION {NativeValues(b, j) : j \in 1..n}] :
            \A j \in 1..n : k[j] \in NativeValues(b, j)}
UnifiedIndexed == {b \in DOMAIN Unified : Unified[b].names # <<>>}

SweepDistinct == ~HasDuplicates(Sweep.tuples)

\* all runs with a dataset wrote the same kinds of blocks
SameLayouts ==
    \A i, j \in DOMAIN simOutput :
        HasData(i) /\ HasData(j) =>
            /\ Len(Out(i).members) = Len(Out(j).members)
            /\ \A b \in DOMAIN Out(i).members :
                   Out(i).members[b].ivarnames = Out(j).members[b].ivarnames

Failed == {i \in DOMAIN simOutput : Ran(i) /\ Out(i).kind = "missing"}

RunName(i) == WorkerName(VarsDict(Sweep.names, Sweep.tuples[i]))

\* C1: whatever runs fail to produce a readable output (missing or unreadable
\* dataset, with or without a CPU-time line in the log), with log writing on,
\* run() ends normally: the summary is produced, the log bundle is written and
\* the results are set.
C1_RunTerminatesNormally ==
    (/\ writeLogs
     /\ RunLeft
     /\ SweepDistinct
     /\ SameLayouts
     /\ \A i \in DOMAIN simOutput :
            \/ Out(i).kind \in {"ok", "missing"}
            \/ Out(i).kind = "unreadable" /\ Out(i).error \in CaughtReadErrors)
    => /\ pc = "done"
       /\ summary # None
       /\ logFile = "written"
       /\ simResults # None

CrossProductIndex(b) ==
    LET keys == IndexKeys(Unified[b])
    IN  /\ Range(keys) = {t \o k : t \in Range(Sweep.tuples), k \in NativeProduct(b)}
        /\ ~HasDuplicates(keys)
        /\ \A q \in DOMAIN keys :
               (\A e \in RowsRead(b) : e[1] # keys[q]) => Unified[b].rows[q].val = NaN

C3_ProducedRowsKept ==
    pc = "done" =>
        /\ \A i \in DOMAIN simOutput : HasData(i) =>
               \A b \in DOMAIN Out(i).members : IsIndexed(Out(i).members[b]) =>
                   \A r \in DOMAIN Out(i).members[b].data :
                       /\ b \in DOMAIN Unified
                       /\ \E q \in DOMAIN Unified[b].rows :
                              /\ Unified[b].rows[q].key =
                                     Sweep.tuples[i] \o Out(i).members[b].data[r].key
                              /\ Unified[b].rows[q].val = Out(i).members[b].data[r].val
        /\ \A b \in UnifiedIndexed : \A q \in DOMAIN Unified[b].rows :
               Unified[b].rows[q].val # NaN =>
                   SubSeq(Unified[b].rows[q].key, 1, Len(Sweep.names))
                       = Sweep.tuples[Unified[b].rows[q].val[1]]

\* C4: no exception raised while executing one run leaves the worker function or
\* aborts run().
C4_RunExceptionsCaught ==
    /\ \A i \in DOMAIN result : result[i] # None => result[i][1].raised = ""
    /\ ~(pc = "raised" /\ excSite = "imap")

\* the worker function of run i found no file at origDataFilePath after the
\* simulator had exited
NoFileFound(i) == Handler(i).outcome = "missing"

\* C5: a run whose dataset file does not exist after the simulator has exited
\* returns an outcome with a read error and no result blocks; an outcome with
\* result blocks has no read error.
C5_MissingOutputIsReadError ==
    \A i \in DOMAIN result : result[i] # None =>
        /\ NoFileFound(i) =>
               /\ result[i][1].raised = ""
               /\ result[i][1].fw.readError # None
               /\ result[i][1].data = None
        /\ result[i][1].data # None => result[i][1].fw.readError = None

C5_Witness ==
    \E i, j \in DOMAIN result :
        /\ result[i] # None /\ NoFileFound(i) /\ Out(i).logStr = <<CpuLine>>
        /\ result[j] # None /\ result[j][1].data # None

\* C6: in a sweep of distinct tuples where exactly the runs of Failed write no
\* dataset, the report counts |Failed| read errors, recorded under the names of
\* exactly those runs, and the rows of each failed tuple are in every unified
\* indexed block as NaN.
C6_FailedRunsReported ==
    (/\ RunLeft
     /\ SweepDistinct
     /\ SameLayouts
     /\ \A i \in DOMAIN simOutput :
            Out(i).kind \in {"ok", "missing"} /\ Out(i).logStr = <<CpuLine>>)
    => /\ pc = "done"
       /\ summary # None
       /\ summary[1].readErrors.readErrorCount = Cardinality(Failed)
       /\ \A j \in DOMAIN logData :
              logData[j][2].readError # None <=> \E i \in Failed : logData[j][1] = RunName(i)
       /\ simResults # None
       /\ \A i \in Failed : \A b \in UnifiedIndexed :
              /\ \E q \in DOMAIN Unified[b].rows :
                     SubSeq(Unified[b].rows[q].key, 1, Len(Sweep.names)) = Sweep.tuples[i]
              /\ \A q \in DOMAIN Unified[b].rows :
                     SubSeq(Unified[b].rows[q].key, 1, Len(Sweep.names)) = Sweep.tuples[i]
                         => Unified[b].rows[q].val = NaN

\* the unified dataset has one block per block of the template (the first
\* consumed outcome with result blocks), under the template's name and with
\* the metadata of meta, and every indexed block is indexed by the sweep axis
\* names followed by the template block's native names
TemplateStructure(meta(_)) ==
    pc = "done" =>
        IF \A i \in DOMAIN handlerLog : ~GotBlocks(i) THEN Unified = <<>>
        ELSE LET tm == ReadBlocks(OutcomeTemplate)
             IN  /\ Len(Unified) = Len(tm)
                 /\ \A b \in DOMAIN tm :
                        /\ Unified[b].name = tm[b].name
                        /\ Unified[b].metadata = meta(tm[b])
                        /\ IsIndexed(tm[b]) => Unified[b].names = Sweep.names \o tm[b].ivarnames

\* the metadata of a block as it was read
MetadataRead(block) == block.metadata

\* the metadata of a block as it was read, and for an indexed block with the
\* names of the index levels under __ivarnames__
MetadataWithIvarnames(block) ==
    IF IsIndexed(block)
    THEN [block.metadata EXCEPT !.ivarnames = Some(Sweep.names \o block.ivarnames)]
    ELSE block.metadata

\* C7 as stated: the unified dataset has one block per block of the template
\* (the first consumed outcome with result blocks), with the template's name
\* and metadata, and every indexed block is indexed by the sweep axis names
\* followed by the template block's native names.
C7_TemplateMetadataUnchanged == TemplateStructure(MetadataRead)

\* C7, amended: the same, but the metadata of an indexed block are the
\* template's with the entry __ivarnames__ added, the names of the index levels.
C7_TemplateStructure == TemplateStructure(MetadataWithIvarnames)

C7_Witness ==
    /\ pc = "done"
    /\ Len(Sweep.names) = 2
    /\ \E i, j \in Readers(1) : i < j /\ ReadBlocks(i)[1].name # ReadBlocks(j)[1].name
    /\ \E b \in DOMAIN Unified : Unified[b].names = <<>>

\* C8: a later run's block is concatenated onto the template block of its
\* position only if both are indexed tables over the same native names; over a
\* scalar template block, or with other native names, it is skipped and the merge
\* goes on without raising.
C8_MismatchedBlocksSkipped ==
    /\ ~(pc = "raised" /\ excSite = "concat" /\ exc = "TypeError")
    /\ (pc = "done" /\ TemplateExists) =>
           \A b \in UnifiedIndexed : \A q \in DOMAIN Unified[b].rows :
               Unified[b].rows[q].val # NaN =>
                   Out(Unified[b].rows[q].val[1]).members[b].ivarnames
                       = Out(Template).members[b].ivarnames

\* C9: a block without native independent variables is in the unified dataset
\* once, unchanged, as the first run with readable output wrote it: no later run
\* alters it and it gets no sweep index levels.
C9_ScalarBlockPassesThrough ==
    (pc = "done" /\ TemplateExists) =>
        LET tm == Out(Template).members
        IN  \A b \in DOMAIN tm : ~IsIndexed(tm[b]) =>
                /\ b \in DOMAIN Unified
                /\ Unified[b] = [type |-> "Block", names |-> <<>>, rows |-> tm[b].data,
                                 name |-> tm[b].name, metadata |-> tm[b].metadata]

\* a tuple list of equal lengths, a list of numbers, or a pre-built index
ValidSpecification ==
    \/ vars.kind = "MultiIndex"
    \/ /\ vars.kind = "list"
       /\ \/ \A i \in DOMAIN vars.items : vars.items[i].t = "num"
          \/ /\ \A i \in DOMAIN vars.items : vars.items[i].t = "tuple"
             /\ ~IsRagged(vars.items)

\* C10: for every valid sweep specification the normalised index has the axis
\* names in reverse declaration order and as many tuples as the input, the i-th
\* being the i-th input tuple reversed.
C10_NormalizedIndexReversed ==
    (pc = "constructed" /\ ValidSpecification) =>
        /\ Sweep.names = Reverse(DeclaredNames)
        /\ Len(Sweep.tuples) = Len(vars.items)
        /\ \A i \in DOMAIN vars.items : Sweep.tuples[i] = Reverse(vars.items[i].v)

C10_Witness ==
    /\ pc = "constructed"
    /\ ValidSpecification
    /\ Len(Sweep.names) = 2
    /\ Len(Sweep.tuples) = 2
    /\ Sweep.tuples[1][1] # Sweep.tuples[1][2]
    /\ Sweep.tuples[1] # Sweep.tuples[2]

AllOf(items, type) == \A i \in DOMAIN items : items[i].t = type
IsMixed(items) == \E i, j \in DOMAIN items : items[i].t # items[j].t
Rejected == pc = "raised" /\ excSite = "vars" /\ exc = "ValueError" /\ newSweepingVars = None

\* C11: a sweep list that mixes tuples and numbers, or whose tuples differ in
\* length, makes the constructor raise ValueError, and no index is produced.
C11_MixedOrRaggedRejected ==
    (/\ pc # "new"
     /\ vars.kind = "list"
     /\ IsMixed(vars.items) \/ (AllOf(vars.items, "tuple") /\ IsRagged(vars.items)))
    => Rejected

\* C12: the constructor raises ValueError for a pre-built index with a level
\* named None, for a tuple list without names, and for a number list whose
\* var_names is not one string.
C12_MissingNamesRejected ==
    (/\ pc # "new"
     /\ \/ vars.kind = "MultiIndex" /\ NoneName \in Range(vars.names)
        \/ vars.kind = "list" /\ AllOf(vars.items, "tuple") /\ var_names.kind = "None"
        \/ vars.kind = "list" /\ AllOf(vars.items, "num") /\ var_names.kind # "str")
    => Rejected

C12_Witness ==
    /\ Rejected
    /\ vars.kind = "list"
    /\ AllOf(vars.items, "num")
    /\ var_names.kind = "list"
    /\ Len(vars.items) = 2

RunsStarted == \E i \in DOMAIN task : task[i] # "queued"

\* C13: a bad sweep specification and a missing netlist are raised before any
\* directory is created and before any run is started, and an unsupported output
\* format is raised before any run is started.
C13_ConfigErrorsBeforeRuns ==
    /\ (pc = "raised" /\ excSite \in {"vars", "netlist"}) => (~RunsStarted /\ ~dirsCreated)
    /\ (writeCall # None /\ writeCall[1].dst \notin writeable_types) =>
           (writeCall[1].exc = "ValueError" /\ ~RunsStarted)

\* C14: write_output_files with a dst_type outside the writeable types raises
\* ValueError and writes nothing, with or without results; with a writeable
\* dst_type and no results it raises AttributeError and writes nothing.
C14_WriteOutputErrors ==
    writeCall # None =>
        LET c == writeCall[1]
        IN  /\ c.dst \notin writeable_types => (c.exc = "ValueError" /\ outFiles = c.before)
            /\ (c.dst \in writeable_types /\ ~c.hadResults) =>
                   (c.exc = "AttributeError" /\ outFiles = c.before)

C14_Witness ==
    /\ writeCall # None
    /\ writeCall[1].dst \notin writeable_types
    /\ writeCall[1].hadResults
    /\ writeCall[1].exc = "ValueError"
    /\ outFiles # {}

\* the value the netlist of run i must show for a variable
WinningValue(i, name) ==
    IF DictHas(staticVars, name) THEN DictGet(staticVars, name)
    ELSE DictGet(RunVars(i), name)

\* C15: while run() is at work, the patch set of every run holds every sweep
\* variable and every static variable, a name in both with the static value,
\* and the netlist of the run shows these values.
C15_StaticValueWins ==
    PoolAlive => \A i \in Prepared :
        /\ \A name \in Range(DictKeys(RunVars(i))) \cup Range(DictKeys(staticVars)) :
               /\ DictHas(Handler(i).patch, name)
               /\ DictGet(Handler(i).patch, name) = WinningValue(i, name)
        /\ \A j \in DOMAIN Netlist(i) :
               \A name \in Range(DictKeys(Handler(i).patch)), global \in BOOLEAN :
                   TemplateNetlist[j] = NetlistLine(global, name, <<"0">>) =>
                       Netlist(i)[j] =
                           NetlistLine(global, name, WinningValue(i, name).s)

C15_Witness ==
    \E i \in Prepared :
        /\ DictHas(staticVars, "bias")
        /\ DictHas(RunVars(i), "bias")
        /\ DictGet(staticVars, "bias") # DictGet(RunVars(i), "bias")
        /\ NRuns >= 2

\* reuse of the run directories is asked for by setting static variables
ReuseRequested == staticVars # <<>>

\* C16: while run() is at work, a run directory that exists already is reused
\* only if reuse was asked for; otherwise the run starts from a fresh copy of
\* the template workspace.
C16_ReuseOnlyOnRequest ==
    PoolAlive => \A i \in Prepared :
        /\ Handler(i).reused => ReuseRequested
        /\ ~ReuseRequested => Handler(i).origin = "template"

\* C17: runs of different sweep tuples have different names and directories,
\* and no two runs that are active at the same time work in the same directory.
C17_DistinctRunDirectories ==
    newSweepingVars # None =>
        /\ \A i, j \in DOMAIN Sweep.tuples :
               Sweep.tuples[i] # Sweep.tuples[j] =>
                   /\ WorkerName(RunVars(i)) # WorkerName(RunVars(j))
                   /\ TempWorkspaceDir(RunVars(i)) # TempWorkspaceDir(RunVars(j))
        /\ \A i, j \in Active : i # j => Handler(i).dir # Handler(j).dir

\* C18: the simulator processes alive are never more than max_workers, and a
\* pool process never has more than one run in hand.
C18_BoundedSubprocesses ==
    PoolAlive =>
        /\ Cardinality({i \in DOMAIN task : task[i] = "alive"}) <= maxPoolSize
        /\ \A w \in 1..maxPoolSize : Cardinality({i \in Active : slot[i] = w}) <= 1

C18_Witness ==
    /\ pc = "pool"
    /\ NRuns > maxPoolSize
    /\ \E i, j \in DOMAIN task :
           /\ i < j
           /\ slot[i] = slot[j]
           /\ task[i] = "finished"
           /\ task[j] = "alive"
    /\ Cardinality({i \in DOMAIN task : task[i] = "alive"}) = maxPoolSize

\* the count the progress bar shows: the passes of the loop of line 157 so far
Progress == Cardinality({i \in DOMAIN task : task[i] = "consumed"})
Completed == {i \in DOMAIN task : task[i] \in {"finished", "consumed"}}

\* the coordinator has an outcome it can take now
CanConsume ==
    /\ \E i \in DOMAIN task : task[i] # "consumed"
    /\ task[NextInOrder] = "finished"

\* C19: during a sweep the progress count is the number of completed runs, but
\* for outcomes the coordinator is about to take; it never exceeds the total and
\* is the total when the sweep has ended.
C19_ProgressCountsCompleted ==
    /\ pc = "pool" =>
           /\ Progress <= NRuns
           /\ Progress <= Cardinality(Completed)
           /\ Progress < Cardinality(Completed) => CanConsume
    /\ pc = "done" => Progress = NRuns

\* C20: the structural template is the first run to complete with result blocks:
\* the unified dataset has that run's blocks, names and metadata.
C20_TemplateIsFirstCompleted ==
    (pc = "done" /\ firstData # None) =>
        LET tm == Out(firstData[1]).members
        IN  /\ Len(Unified) = Len(tm)
            /\ \A b \in DOMAIN tm :
                   /\ Unified[b].name = tm[b].name
                   /\ Unified[b].metadata.origin = tm[b].metadata.origin

\* the outcome of run i as the output of its simulator alone determines it
OutcomeOf(i) ==
    IF Out(i).kind = "handlerError"
    THEN RaisedOutcome(RunVars(i), Out(i).error)
    ELSE sim_worker_fcn(RunVars(i), Fw(RunVars(i), Out(i).logStr),
                        EnvFile(CurrentSweep, i, Out(i)))

\* what run() holds after taking the outcomes of the runs 1..i in the order of
\* the sweep index, computed from the outputs alone
RECURSIVE MergedUpTo(_)
MergedUpTo(i) ==
    IF i = 0 THEN [blocks |-> <<>>, first |-> TRUE, exc |-> ""]
    ELSE LET prev == MergedUpTo(i - 1)
             ret  == OutcomeOf(i)
         IN  IF prev.exc # "" THEN prev
             ELSE IF ret.raised # "" THEN [prev EXCEPT !.exc = ret.raised]
             ELSE IF ret.data = None THEN prev
             ELSE IF prev.first
             THEN [blocks |-> ret.data[1], first |-> FALSE, exc |-> ""]
             ELSE LET merged == MergeFrom(prev.blocks, ret.data[1], 1)
                  IN  [blocks |-> merged.blocks, first |-> FALSE, exc |-> merged.exc]

\* the key-to-value content of a block, whatever the order of its rows
Content(block) == {<<block.rows[q].key, block.rows[q].val>> : q \in DOMAIN block.rows}

\* the content the outputs of the runs determine at position b
ExpectedContent(b) ==
    LET produced == UNION {{<<Sweep.tuples[i] \o Out(i).members[b].data[r].key,
                              Out(i).members[b].data[r].val>> :
                                r \in DOMAIN Out(i).members[b].data} : i \in Producers(b)}
        keys == {t \o k : t \in Range(Sweep.tuples), k \in Observed(b)}
    IN  produced \cup {<<key, NaN>> : key \in {x \in keys : \A e \in produced : e[1] # x}}

\* C21: for a given sweep and given outputs of the runs, the unified dataset is
\* the one the outputs determine, in whatever order the runs completed: the
\* blocks are those of the merge in sweep order, and every indexed block maps
\* each key to the value of the run that produced it, NaN where none did.
C21_ContentIndependentOfCompletionOrder ==
    pc = "done" =>
        LET merged == MergedUpTo(NRuns)
        IN  /\ merged.exc = ""
            /\ Len(Unified) = Len(merged.blocks)
            /\ \A b \in DOMAIN Unified :
                   /\ Unified[b].names = merged.blocks[b].names
                   /\ Unified[b].names # <<>> => Content(Unified[b]) = ExpectedContent(b)

\* C22: HPEESOF_DIR and PATH are assigned once, by the coordinator before the
\* pool starts, and no pool process assigns them for a run.
C22_EnvironmentWrittenOnceBeforePool ==
    /\ pc = "pool" => \E j \in DOMAIN envWrites : envWrites[j].process = 0
    /\ Len(envWrites) <= 1
    /\ \A j \in DOMAIN envWrites : envWrites[j].process = 0

\* C23: when the outcome of a run is handed back (with result blocks or with
\* either read error) and temporary files are not kept, its directory is not
\* there, unless the removal has failed, which leaves the directory in place
\* and the run's outcome and the sweep as they are; when temporary files are
\* kept no step removes a directory.
C23_DirectoryRemovedOnReturn ==
    [][/\ \A i \in DOMAIN task :
              (i \in DOMAIN task' /\ task[i] = "return" /\ task'[i] = "finished") =>
                  /\ handlerLog'[i][1].outcome \in ReturnPaths
                  /\ pc' = pc
                  /\ (~keepTempFiles /\ handlerLog'[i][1].rm = "ok") =>
                         ~DirHas(tempDirs', handlerLog'[i][1].dir)
                  /\ handlerLog'[i][1].rm = "failed" =>
                         /\ DirHas(tempDirs', handlerLog'[i][1].dir)
                         /\ result'[i] = result[i]
       /\ keepTempFiles =>
              \A e \in tempDirs : DirHas(tempDirs', e[1])]_vars_all

\* a call of one of the functions has returned
Called(fn) == fnArgs # None /\ fnArgs[1].fn = fn /\ fnOut # None

\* the variable a line sets according to its first characters, if it is in d
SetsVariable(line, d, global) ==
    {name \in Range(DictKeys(d)) :
        startswith(line, (IF global THEN GlobalPrefix ELSE <<>>) \o Chars(name) \o <<"=">>)}

\* C24: modify_netlist rewrites every line that starts with "name=" or
\* "global name=", name a key of vars_dict, to that prefix, the value and a
\* newline, leaves every other line as it is and keeps the number and the order
\* of the lines; a second application changes nothing.
C24_NetlistPatched ==
    Called("modify_netlist") =>
        LET file == readlines(fnArgs[1].file)
            d    == fnArgs[1].vars_dict
            out  == readlines(fnOut[1])
        IN  /\ Len(out) = Len(file)
            /\ \A j \in DOMAIN file : \A global \in BOOLEAN :
                   \A name \in SetsVariable(file[j], d, global) :
                       out[j] = NetlistLine(global, name, DictGet(d, name).s)
            /\ \A j \in DOMAIN file :
                   SetsVariable(file[j], d, TRUE) \cup SetsVariable(file[j], d, FALSE) = {}
                       => out[j] = file[j]
            /\ writelines(modify_netlist(out, d)) = fnOut[1]

C24_Witness ==
    /\ Called("modify_netlist")
    /\ Len(readlines(fnArgs[1].file)) = 2
    /\ Len(fnArgs[1].vars_dict) = 2
    /\ SetsVariable(readlines(fnArgs[1].file)[1], fnArgs[1].vars_dict, TRUE) # {}
    /\ SetsVariable(readlines(fnArgs[1].file)[2], fnArgs[1].vars_dict, TRUE) = {}
    /\ SetsVariable(readlines(fnArgs[1].file)[2], fnArgs[1].vars_dict, FALSE) = {}
    /\ readlines(fnOut[1])[1] # readlines(fnArgs[1].file)[1]

\* the text the claim describes: what decodes, decoded, and every byte that does
\* not, replaced by the escape of that byte alone
RECURSIVE EscapedByteByByte(_, _)
EscapedByteByByte(bs, p) ==
    IF p > Len(bs) THEN <<>>
    ELSE LET st == utf8_step(bs, p)
         IN  IF st.err THEN Replacement(<<bs[p]>>) \o EscapedByteByByte(bs, p + 1)
             ELSE <<st.cp>> \o EscapedByteByByte(bs, p + st.len)

\* C25: robust_byte_decode returns for every byte sequence, and what it returns
\* is the decoded text of the parts that decode with each byte that does not
\* decode replaced by the hex escape of that byte.
C25_DecodeEscapesEachByte ==
    Called("robust_byte_decode") =>
        /\ fnOut[1].raised = ""
        /\ fnOut[1].text = EscapedByteByByte(fnArgs[1].byte_str, 1)

\* C26: a second call of run() on the same manager, the simulator doing with
\* every run what it did in the first call, leaves the same unified dataset, the
\* same records, the same report and the same log file: nothing of the first
\* call is in them twice or missing.
C26_SecondRunSameResults ==
    (pc = "done" /\ prevRun # None) =>
        /\ simOutput = prevRun[1].simOutput
        /\ simResults = prevRun[1].simResults
        /\ logData = prevRun[1].logData
        /\ summary = prevRun[1].summary
        /\ logFile = prevRun[1].logFile

C26_Witness ==
    /\ pc = "done"
    /\ prevRun # None
    /\ \A i \in DOMAIN simOutput : HasData(i)
    /\ \E b \in UnifiedIndexed : Cardinality(Producers(b)) = 2
    /\ Len(logData) = 2
    /\ logFile = "written"

\* the messages of a kind in the log of run i of a print_summary call: the
\* header with the text under it
MessagesOf(i, field) ==
    {<<MatchHeader(m), m.body>> :
        m \in {x \in Range(Tail(fnArgs[1].finishedWorkers[i].logStr)) : x.field = field}}

AllMessages(field) == UNION {MessagesOf(i, field) : i \in DOMAIN fnArgs[1].finishedWorkers}

\* the entries of one part of the report: each message of the logs has one
\* entry, the entry under its header; that entry lists the runs whose log has
\* the message, each once; and there are no more entries than messages
OneEntryPerMessage(entries, field) ==
    /\ Len(entries) = Cardinality(AllMessages(field))
    /\ \A m \in AllMessages(field) :
           /\ Cardinality({j \in DOMAIN entries : entries[j].text = m[1]}) = 1
           /\ \A j \in DOMAIN entries : entries[j].text = m[1] =>
                  /\ ~HasDuplicates(entries[j].simulation_list)
                  /\ Range(entries[j].simulation_list) =
                         {fnArgs[1].finishedWorkers[i].workerName :
                             i \in {x \in DOMAIN fnArgs[1].finishedWorkers :
                                        m \in MessagesOf(x, field)}}
    /\ \A j \in DOMAIN entries :
           entries[j].allSimulations
               <=> Len(entries[j].simulation_list) = Len(fnArgs[1].finishedWorkers)

\* C27: in the report every distinct warning and every distinct error of the
\* logs has exactly one entry, which lists exactly the runs whose log has that
\* text, each once, and is printed as "All Simulations" exactly when it lists
\* as many runs as there are.
C27_OneEntryPerMessageText ==
    Called("print_summary") =>
        /\ OneEntryPerMessage(fnOut[1].warnings, "Warning detected")
        /\ OneEntryPerMessage(fnOut[1].errors, "Error detected")

\* the message for the user that the read error of run i carries
HumanMessage(i) ==
    IF Out(i).kind = "missing" THEN Str("No output file generated")
    ELSE Str("Output File unreadable")

\* the runs that ended with a read error
ReadFailed == {i \in DOMAIN simOutput : Ran(i) /\ Out(i).kind \in {"missing", "unreadable"}}

\* C28: the read-error part of the report gives the number of runs of the
\* sweep, the number of runs with a read error, and every distinct message for
\* the user once, however many runs failed with it.
C28_ReadErrorSummary ==
    (pc \in {"done", "raised"} /\ summary # None /\ SweepDistinct) =>
        LET readErrors == summary[1].readErrors
        IN  /\ readErrors.totalSims = NRuns
            /\ readErrors.readErrorCount = Cardinality(ReadFailed)
            /\ ~HasDuplicates(readErrors.errors)
            /\ Range(readErrors.errors) = {HumanMessage(i) : i \in ReadFailed}

\* read_finished_workers has been called in this run()
RecordsMade == pc \in {"done", "raised"} /\ excSite \notin {"imap", "concat"} /\ AllRan

\* C29: whatever the outcomes of the runs, read errors of both kinds among
\* them, the records are JSON values, and with log writing on write_logfile
\* writes the bundle, one entry per run under the run's name.
C29_RecordsSerializable ==
    (RecordsMade /\ SweepDistinct) =>
        /\ JsonSerializable(logData)
        /\ Len(logData) = NRuns
        /\ \A i \in DOMAIN logData : logData[i][1] = RunName(i)
        /\ (writeLogs /\ excSite # "print_summary") => logFile = "written"

\* the read-error records the runs have handed back so far
ReadErrorRecords ==
    {result[i][1].fw.readError[1] :
        i \in {x \in DOMAIN result : result[x] # None /\ result[x][1].fw.readError # None}}
    \cup {finishedWorkers[j].readError[1] :
              j \in {x \in DOMAIN finishedWorkers : finishedWorkers[x].readError # None}}

\* C30: every read-error record, of a missing and of an unreadable output
\* alike, is the message for the user, the exception's class name and the raw
\* error text, in this order.
C30_ReadErrorShape ==
    \A readError \in ReadErrorRecords :
        /\ Len(readError) = 3
        /\ \A h \in DOMAIN readError : readError[h].kind = "str"
        /\ readError[1] \in {Str("No output file generated"), Str("Output File unreadable")}

\* the list the constructed manager holds in self.ads_startup_cmd
StoredStartupCmd == StartupCmd(ads_startup_cmd).stored

\* C33: once the constructor has returned or raised, None, a string and a
\* list of strings have constructed the manager with the stored list [],
\* [string] and the given list, and any other value has raised ValueError
C33_StartupCmdAccepted ==
    pc # "new" /\ ~(pc = "raised" /\ excSite \in {"vars", "netlist"}) =>
        LET raised == pc = "raised" /\ excSite = "ads_startup_cmd"
        IN  /\ ads_startup_cmd = "None" => ~raised /\ StoredStartupCmd = Some(<<>>)
            /\ ads_startup_cmd = "str" =>
                   ~raised /\ StoredStartupCmd = Some(<<StartupCmdStr>>)
            /\ ads_startup_cmd = "list" =>
                   ~raised /\ StoredStartupCmd = Some(StartupCmdList)
            /\ ads_startup_cmd = "other" => raised /\ exc = "ValueError"

\* the runs whose worker function has returned
Returned == {i \in Prepared : task[i] = "finished"}

\* the value under which the rows of run i are indexed on sweep axis a: the
\* worker function's index levels for a block with a native variable
IndexValue(i, a) ==
    ProcessBlock(RunVars(i), RawBlock(i, 1, "freq", {1})).rows[1].key[a]

\* C35: for every run that has returned and every sweep axis, the value the
\* rows of the run are indexed under is the value the netlist of the run
\* shows for the axis, also when a static variable has the name of the axis
C35_IndexedUnderPatchedValue ==
    \A i \in Returned :
        \A a \in DOMAIN Sweep.names :
            \A j \in DOMAIN TemplateNetlist, global \in BOOLEAN :
                TemplateNetlist[j] = NetlistLine(global, Sweep.names[a], <<"0">>) =>
                    Netlist(i)[j] =
                        NetlistLine(global, Sweep.names[a], IndexValue(i, a).s)

\* C34: whatever set_static_vars and run calls came before, the netlist of
\* every run of the latest sweep is the template netlist with the sweep tuple
\* of the run and the current static variables set, so that a static variable
\* of an earlier sweep that is set no longer shows its template value
C34_NetlistFromTemplate ==
    pc = "pool" =>
        \A i \in Prepared :
            Netlist(i) =
                modify_netlist(TemplateNetlist, DictMerge(RunVars(i), staticVars))

\* C37: the dataset a run hands to the merge is the file the simulator of that
\* run has written in the sweep that is running; a run whose simulator wrote
\* nothing has no such file, so it never returns with a dataset read, whatever
\* file of the expected name its directory held before
C37_OnlyOwnDatasetRead ==
    \A i \in Returned :
        Handler(i).outcome = "ok" =>
            /\ Handler(i).read # None
            /\ Handler(i).read[1].sweep = CurrentSweep
            /\ Handler(i).read[1].run = i

\* the blocks of the runs with data whose native independent variable has the
\* name of a sweep axis
Collisions ==
    {ib \in {jc \in (DOMAIN simOutput) \X (1..MaxBlocks) :
                 /\ HasData(jc[1])
                 /\ jc[2] \in DOMAIN Out(jc[1]).members} :
        \E n \in Range(Out(ib[1]).members[ib[2]].ivarnames) : n \in Range(Sweep.names)}

\* C31: run() does not return with a unified dataset when a block of a run
\* with data has a native independent variable with the name of a sweep axis:
\* the collision ends run() with an error
C31_CollisionIsFatal ==
    pc = "done" => Collisions = {}

\* C38: a later run with more blocks than the template run, an indexed block
\* beyond the template's last position among them, does not make run() fail:
\* the merge never ends with an IndexError, and the unified dataset has the
\* template's positions and no other
C38_ExtraBlocksIgnored ==
    /\ ~(pc = "raised" /\ excSite = "concat" /\ exc = "IndexError")
    /\ (pc = "done" /\ TemplateExists) =>
           Len(simResults[1]) = Len(Out(Template).members)

\* the names and metadata of the blocks of the first run, in the order of the
\* sweep index, that has result blocks
TemplateMetadata ==
    [b \in DOMAIN Out(Template).members |->
        [name |-> Out(Template).members[b].name,
         metadata |-> Out(Template).members[b].metadata]]

\* C36: the template is the first run in the order of the sweep index that has
\* readable output, also when a later run has completed before it; so the
\* unified dataset, with the names and the metadata of its blocks, is the one
\* the outputs of the runs determine, whatever the order of completion
C36_TemplateFirstInSweepOrder ==
    /\ (pc = "pool" /\ ~isFirstValidWorker) =>
           TemplateExists /\ concatBlocksMetadata = TemplateMetadata
    /\ (pc = "done" /\ TemplateExists) =>
           simResults = Some(Reconcile(MergedUpTo(NRuns).blocks, TemplateMetadata, Sweep))

\* C39: the directory of a run goes only while the worker function of that
\* run is at the rm of its handler, which is after its existence check and its
\* read: no step removes the directory of a run that is still at work
C39_DeletedOnlyAfterRead ==
    [][\A j \in Active :
          (DirHas(tempDirs, Handler(j).dir) /\ ~DirHas(tempDirs', Handler(j).dir)) =>
              task[j] = "rm"]_vars_all

\* run() has taken one outcome per sweep tuple from the pool
AllConsumed == newSweepingVars # None /\ Len(finishedWorkers) = NRuns

\* C32: with every simulator exiting in the end, run() comes to have consumed
\* one outcome per sweep tuple; and the coordinator is never kept from taking
\* the outcome it waits for once the run has handed it back
C32_EveryOutcomeConsumed ==
    /\ (pc = "pool") ~> AllConsumed
    /\ []((pc = "pool" /\ \E i \in DOMAIN task : task[i] # "consumed") =>
              (task[NextInOrder] = "finished" => ENABLED Consume))

====
